---- MODULE Spec2Model ----
(***************************************************************************)
(* A model of the IDF/EMN parser of src/src/idf_parser.py: the line        *)
(* tokenizer (IdfParser._tokenize_line), the section scanner and record    *)
(* decoders (IdfParser.parse and its _parse_* helpers) and the geometry    *)
(* reconstruction (IdfParser._points_to_geometry).                         *)
(*                                                                         *)
(* Text.  A line is a sequence of symbols.  A symbol is the double quote,  *)
(* the space, the tab, or a chunk: a non-empty run of other characters,    *)
(* written as a string (".HEADER", "100").  The tokenizer treats every     *)
(* character of such a run alike (it appends it to current_token), so a    *)
(* run behaves as one character.  A token is a sequence of symbols; the    *)
(* empty token is << >> and the token  .HEADER  is << ".HEADER" >>.        *)
(*                                                                         *)
(* Numbers.  A Python float is a fixed-point integer counting 1/FP; the    *)
(* inputs are chosen so that every product and quotient is exact.          *)
(***************************************************************************)
EXTENDS Integers, Sequences, FiniteSets, TLC

VARIABLES
    \* ---- _tokenize_line on one line (lines 129-160), called as in parse 331-334
    tk_raw,            \* the line as read from the file
    tk_line,           \* line.strip(): the argument of _tokenize_line
    tk_i,              \* i, 1-based
    tk_in_quote,       \* in_quote
    tk_current_token,  \* current_token
    tk_tokens,         \* tokens (the local list of _tokenize_line)
    tk_pc,             \* "loop" | "done"
    tk_lits,           \* history: the quoted literals closed so far
    \* ---- one call of idf_parser(filename): IdfParser(filename).parse()
    content,           \* the lines of the file
    tokens,            \* tokens
    i,                 \* i, 1-based
    pc,                \* "read" | "scan" | "returned" | "raised"
    err,               \* the exception that left parse(), or NoError
    ucnv,              \* self.ucnv, in 1/UcnvDen
    loop_id_seq,       \* self.loop_id_seq
    headers, board_outlines, other_outlines, route_outlines, route_keepouts,
    via_keepouts, place_keepouts, holes, notes, placement,
    result,            \* the IdfFile returned, or NoFile
    dispatched,        \* history: the section-start tokens acted on
    \* ---- idf_parser(filename) called again on the same file (lines 591-594)
    calls,             \* the calls of idf_parser that have returned or raised
    first,             \* history: the outcome of the first call
    \* ---- one call of _points_to_geometry (lines 233-323)
    g_loop_points,     \* loop_points
    g_cnv,             \* self.ucnv
    g_keys,            \* the keys of loops still to be walked
    g_points,          \* points: the loop being walked, sorted
    g_k,               \* the position of point in points, 1-based
    g_acc,             \* geometries, elements and current_point
    g_pc,              \* "call" | "loops" | "walk" | "returned"
    g_shape_loop,      \* history: for each shape of geometries, its loop index
    \* ---- the route keepouts of one IdfFile on the importer's two paths
    rk_layers,         \* keepout.layers of idf.route_keepouts, in order
    layer_sets,        \* the layer_set of each keepout convert_idf_to_layer_code has done
    feature_layers     \* the layers of each KeepOut convert_emn_to_jitx_features has made

tokVars == <<tk_raw, tk_line, tk_i, tk_in_quote, tk_current_token, tk_tokens,
             tk_pc, tk_lits>>

parseVars == <<content, tokens, i, pc, err, ucnv, loop_id_seq, headers,
               board_outlines, other_outlines, route_outlines, route_keepouts,
               via_keepouts, place_keepouts, holes, notes, placement, result,
               dispatched>>

callVars == <<calls, first>>

geomVars == <<g_loop_points, g_cnv, g_keys, g_points, g_k, g_acc, g_pc,
              g_shape_loop>>

layerVars == <<rk_layers, layer_sets, feature_layers>>

vars == <<tokVars, parseVars, callVars, geomVars, layerVars>>

----------------------------------------------------------------------------
(* Bounds *)

\* longest line of the tokenizer specification, in symbols
MaxLineLen == 5

\* most fragments a file of the parser specification is made of
MaxBlocks == 2

\* the calls of idf_parser made on one file
MaxCalls == 2

\* most vertices after the first of a loop of the arc specification
MaxArcVertices == 2

\* most route keepouts of the IdfFile handed to the importer
MaxKeepouts == 2

\* most loops a section of the geometry specification has
MaxLoops == 2

----------------------------------------------------------------------------
(* Symbols *)

Quote == "\""
Space == " "
Tab   == "\t"

\* the symbols the tokenizer specification draws its lines from
TokAlphabet == {"a", "b", Space, Tab, Quote}

\* str.strip() with no argument strips whitespace; of the model's symbols
\* the space and the tab are whitespace
IsWhitespace(c) == c = Space \/ c = Tab

RECURSIVE LStrip(_)
LStrip(s) ==
    IF s # << >> /\ IsWhitespace(Head(s)) THEN LStrip(Tail(s)) ELSE s

RECURSIVE RStrip(_)
RStrip(s) ==
    IF s # << >> /\ IsWhitespace(s[Len(s)])
    THEN RStrip(SubSeq(s, 1, Len(s) - 1))
    ELSE s

Strip(s) == RStrip(LStrip(s))

----------------------------------------------------------------------------
(* IdfParser._tokenize_line *)

\* the locals before the loop (lines 131-134)
TokStart == [tokens |-> << >>, in_quote |-> FALSE, current_token |-> << >>]

\* a plausible slip: inside quotes a space ends the token as it does outside
TokCharSpaceEndsQuoted(st, char) ==
    IF st.in_quote /\ char = Quote
    THEN [tokens |-> Append(st.tokens, st.current_token),
          in_quote |-> FALSE, current_token |-> << >>]
    ELSE IF char = Quote
    THEN [st EXCEPT !.in_quote = TRUE]
    ELSE IF char = Space
    THEN IF st.current_token # << >>
         THEN [st EXCEPT !.tokens = Append(@, st.current_token),
                         !.current_token = << >>]
         ELSE st
    ELSE [st EXCEPT !.current_token = Append(@, char)]

\* one iteration of the while loop (lines 137-154) on character char
TokChar(st, char) ==
    IF st.in_quote
    THEN IF char = Quote
         THEN [tokens |-> Append(st.tokens, st.current_token),
               in_quote |-> FALSE, current_token |-> << >>]
         ELSE [st EXCEPT !.current_token = Append(@, char)]
    ELSE IF char = Quote
         THEN [st EXCEPT !.in_quote = TRUE]
         ELSE IF char = Space
              THEN IF st.current_token # << >>
                   THEN [st EXCEPT !.tokens = Append(@, st.current_token),
                                   !.current_token = << >>]
                   ELSE st
              ELSE [st EXCEPT !.current_token = Append(@, char)]

\* after the loop (lines 157-160): a pending non-empty token is kept
TokFlush(st) ==
    IF st.current_token # << >>
    THEN Append(st.tokens, st.current_token)
    ELSE st.tokens

RECURSIVE TokFold(_, _, _)
TokFold(st, line, k) ==
    IF k > Len(line) THEN st ELSE TokFold(TokChar(st, line[k]), line, k + 1)

\* _tokenize_line(line) as a function of its argument
TokenizeLine(line) == TokFlush(TokFold(TokStart, line, 1))

----------------------------------------------------------------------------
(* Numbers and exceptions *)

\* fixed point: a float f is the integer f * FP
FP == 10 * 10

\* the numerals of the model's files, with float(text) * FP
NumVal ==
    ("0" :> 0) @@ ("1" :> 100) @@ ("5" :> 500) @@ ("50" :> 5000) @@
    ("100" :> 10000) @@ ("1.6" :> 160) @@ ("2.0" :> 200) @@ ("3.0" :> 300) @@
    ("90" :> 9000) @@ ("-90" :> -9000) @@ ("180" :> 18000) @@
    ("360" :> 36000) @@ ("-360" :> -36000) @@
    ("270" :> 27000) @@ ("-270" :> -27000) @@ ("720" :> 72000)

\* the numerals int() accepts: those without a fraction part
IntTexts ==
    {"0", "1", "5", "50", "100", "90", "-90", "180", "360", "-360", "270",
     "-270", "720"}

\* a token is a single word s
T(s) == <<s>>

\* float(token): Python strips surrounding whitespace, then the text must be
\* a numeral; anything else raises ValueError
IsFloat(tok) == Len(Strip(tok)) = 1 /\ Strip(tok)[1] \in DOMAIN NumVal
FloatOf(tok) == NumVal[Strip(tok)[1]]

\* int(token), likewise; the value is the integer itself
IsInt(tok) == Len(Strip(tok)) = 1 /\ Strip(tok)[1] \in IntTexts
IntOf(tok) == NumVal[Strip(tok)[1]] \div FP

NoError == [type |-> "none", name |-> "", count |-> 0]
\* ValueError of float() or int(), IndexError of a subscript
ValueError == [type |-> "ValueError", name |-> "", count |-> 0]
IndexError == [type |-> "IndexError", name |-> "", count |-> 0]
\* IdfException(f"{match_str} not found.") (line 127)
NotFound(match_str) == [type |-> "IdfException", name |-> match_str, count |-> -1]
\* IdfException(f"Expected exactly 1 header, found {n}") (lines 563, 566)
Expected(what, n) == [type |-> "IdfException", name |-> what, count |-> n]

\* x * self.ucnv, the factor cnv counting 1/UcnvDen
UcnvDen == 10000
UcnvMM == 10000
UcnvThou == 254
\* the factor applied a second time to the product
MulTwice(x, cnv) == (((x * cnv) \div UcnvDen) * cnv) \div UcnvDen
Mul(x, cnv) == (x * cnv) \div UcnvDen

----------------------------------------------------------------------------
(* Record decoders *)

\* _parse_loop_points (lines 162-177); k is i + 1, seq is self.loop_id_seq
RECURSIVE LoopPointsFrom(_, _, _, _)
LoopPointsFrom(toks, k, seq, acc) ==
    IF ~(k + 3 <= Len(toks))
    THEN [err |-> NoError, points |-> acc, seq |-> seq]
    ELSE IF ~IsInt(toks[k]) \/ ~IsFloat(toks[k + 1]) \/ ~IsFloat(toks[k + 2])
            \/ ~IsFloat(toks[k + 3])
    THEN [err |-> ValueError, points |-> acc, seq |-> seq]
    ELSE LoopPointsFrom(toks, k + 4, seq + 1,
             Append(acc, [id |-> seq, loop_n |-> IntOf(toks[k]),
                          x |-> FloatOf(toks[k + 1]), y |-> FloatOf(toks[k + 2]),
                          angle |-> FloatOf(toks[k + 3])]))

ParseLoopPoints(toks, seq) == LoopPointsFrom(toks, 1, seq, << >>)

\* _parse_holes (lines 179-195)
RECURSIVE HolesFrom(_, _, _, _)
HolesFrom(toks, k, cnv, acc) ==
    IF ~(k + 6 <= Len(toks))
    THEN [err |-> NoError, recs |-> acc]
    ELSE IF ~IsFloat(toks[k]) \/ ~IsFloat(toks[k + 1]) \/ ~IsFloat(toks[k + 2])
    THEN [err |-> ValueError, recs |-> acc]
    ELSE HolesFrom(toks, k + 7, cnv,
             Append(acc, [dia |-> Mul(FloatOf(toks[k]), cnv),
                          x |-> Mul(FloatOf(toks[k + 1]), cnv),
                          y |-> Mul(FloatOf(toks[k + 2]), cnv),
                          plating |-> toks[k + 3], assoc |-> toks[k + 4],
                          type |-> toks[k + 5], owner |-> toks[k + 6]]))

ParseHoles(toks, cnv) == HolesFrom(toks, 1, cnv, << >>)

\* _parse_notes (lines 197-211)
RECURSIVE NotesFrom(_, _, _, _)
NotesFrom(toks, k, cnv, acc) ==
    IF ~(k + 4 <= Len(toks))
    THEN [err |-> NoError, recs |-> acc]
    ELSE IF ~IsFloat(toks[k]) \/ ~IsFloat(toks[k + 1]) \/ ~IsFloat(toks[k + 2])
            \/ ~IsFloat(toks[k + 3])
    THEN [err |-> ValueError, recs |-> acc]
    ELSE NotesFrom(toks, k + 5, cnv,
             Append(acc, [x |-> Mul(FloatOf(toks[k]), cnv),
                          y |-> Mul(FloatOf(toks[k + 1]), cnv),
                          height |-> Mul(FloatOf(toks[k + 2]), cnv),
                          length |-> Mul(FloatOf(toks[k + 3]), cnv),
                          text |-> toks[k + 4]]))

ParseNotes(toks, cnv) == NotesFrom(toks, 1, cnv, << >>)

\* _parse_placement (lines 213-231)
RECURSIVE PlacementFrom(_, _, _, _)
PlacementFrom(toks, k, cnv, acc) ==
    IF ~(k + 8 <= Len(toks))
    THEN [err |-> NoError, recs |-> acc]
    ELSE IF ~IsFloat(toks[k + 3]) \/ ~IsFloat(toks[k + 4]) \/ ~IsFloat(toks[k + 5])
            \/ ~IsFloat(toks[k + 6])
    THEN [err |-> ValueError, recs |-> acc]
    ELSE PlacementFrom(toks, k + 9, cnv,
             Append(acc, [package |-> toks[k], partnumber |-> toks[k + 1],
                          refdes |-> toks[k + 2],
                          x |-> Mul(FloatOf(toks[k + 3]), cnv),
                          y |-> Mul(FloatOf(toks[k + 4]), cnv),
                          offset |-> Mul(FloatOf(toks[k + 5]), cnv),
                          angle |-> FloatOf(toks[k + 6]),
                          side |-> toks[k + 7], status |-> toks[k + 8]]))

ParsePlacement(toks, cnv) == PlacementFrom(toks, 1, cnv, << >>)

----------------------------------------------------------------------------
(* Arithmetic of the geometry: math.sqrt, math.sin, math.atan2 *)

\* math.sqrt on fixed-point integers: the integer part of the root
RECURSIVE SqrtBetween(_, _, _)
SqrtBetween(n, lo, hi) ==
    IF lo >= hi THEN lo
    ELSE LET mid == (lo + hi + 1) \div 2
         IN  IF mid * mid <= n THEN SqrtBetween(n, mid, hi)
             ELSE SqrtBetween(n, lo, mid - 1)

Sqrt(n) == SqrtBetween(n, 0, 46340)

Abs(x) == IF x < 0 THEN -x ELSE x
Max(a, b) == IF a >= b THEN a ELSE b

\* sines, cosines and tangents count 1/TrigDen
TrigDen == 100 * 100

\* sin(k degrees) * TrigDen for k = 0..90
SinTable ==
    <<0, 175, 349, 523, 698, 872, 1045, 1219, 1392, 1564, 1736, 1908, 2079,
      2250, 2419, 2588, 2756, 2924, 3090, 3256, 3420, 3584, 3746, 3907, 4067,
      4226, 4384, 4540, 4695, 4848, 5000, 5150, 5299, 5446, 5592, 5736, 5878,
      6018, 6157, 6293, 6428, 6561, 6691, 6820, 6947, 7071, 7193, 7314, 7431,
      7547, 7660, 7771, 7880, 7986, 8090, 8192, 8290, 8387, 8480, 8572, 8660,
      8746, 8829, 8910, 8988, 9063, 9135, 9205, 9272, 9336, 9397, 9455, 9511,
      9563, 9613, 9659, 9703, 9744, 9781, 9816, 9848, 9877, 9903, 9925, 9945,
      9962, 9976, 9986, 9994, 9998, 10000>>

\* tan(k degrees) * TrigDen for k = 0..45
TanTable ==
    <<0, 175, 349, 524, 699, 875, 1051, 1228, 1405, 1584, 1763, 1944, 2126,
      2309, 2493, 2679, 2867, 3057, 3249, 3443, 3640, 3839, 4040, 4245, 4452,
      4663, 4877, 5095, 5317, 5543, 5774, 6009, 6249, 6494, 6745, 7002, 7265,
      7536, 7813, 8098, 8391, 8693, 9004, 9325, 9657, 10000>>

\* math.sin(math.radians(d)) for a whole number of degrees d
SinDeg(d) ==
    LET m == d % 360
    IN  IF m <= 90 THEN SinTable[m + 1]
        ELSE IF m <= 180 THEN SinTable[180 - m + 1]
        ELSE IF m <= 270 THEN -SinTable[m - 180 + 1]
        ELSE -SinTable[360 - m + 1]

\* atan of a ratio t / TrigDen in [0, 1], in whole degrees (rounded down)
RECURSIVE AtanBelow(_, _)
AtanBelow(t, k) ==
    IF k < 45 /\ TanTable[k + 2] <= t THEN AtanBelow(t, k + 1) ELSE k

\* math.degrees(math.atan2(dy, dx)), in (-180, 180], times FP
Atan2Deg(dy, dx) ==
    LET ay == Abs(dy)
        ax == Abs(dx)
        a  == IF ax = 0 /\ ay = 0 THEN 0
              ELSE IF ay <= ax THEN AtanBelow((ay * TrigDen) \div ax, 0)
              ELSE 90 - AtanBelow((ax * TrigDen) \div ay, 0)
    IN  FP * (IF dx >= 0 /\ dy >= 0 THEN a
              ELSE IF dx < 0 /\ dy >= 0 THEN 180 - a
              ELSE IF dx < 0 THEN a - 180
              ELSE -a)

----------------------------------------------------------------------------
(* IdfParser._points_to_geometry *)

\* an element of a loop: a point tuple (x, y), or Arc((xc, yc), radius,
\* start_ang, angle)
Pt(x, y) == [t |-> "pt", x |-> x, y |-> y, r |-> 0, start |-> 0, sweep |-> 0]
\* an Arc that keeps the size of the sweep and drops its sign
ArcElUnsigned(xc, yc, radius, start_ang, angle) ==
    [t |-> "arc", x |-> xc, y |-> yc, r |-> radius, start |-> start_ang,
     sweep |-> IF angle < 0 THEN -angle ELSE angle]

ArcEl(xc, yc, radius, start_ang, angle) ==
    [t |-> "arc", x |-> xc, y |-> yc, r |-> radius, start |-> start_ang,
     sweep |-> angle]

\* the shapes: Circle(radius=...), Polygon(points), ArcPolygon(elements)
Circle(radius) == [kind |-> "Circle", radius |-> radius, elements |-> << >>]
Polygon(points) == [kind |-> "Polygon", radius |-> 0, elements |-> points]
ArcPolygon(elements) == [kind |-> "ArcPolygon", radius |-> 0, elements |-> elements]

RECURSIVE Contains(_, _)
Contains(s, x) == s # << >> /\ (Head(s) = x \/ Contains(Tail(s), x))

\* the keys of the dict loops, in insertion order (lines 239-243)
RECURSIVE LoopKeys(_, _)
LoopKeys(points, acc) ==
    IF points = << >> THEN acc
    ELSE LoopKeys(Tail(points),
                  IF Contains(acc, Head(points).loop_n) THEN acc
                  ELSE Append(acc, Head(points).loop_n))

\* loops[n]: the points of loop n in the order they were appended
LoopOf(points, n) == SelectSeq(points, LAMBDA p : p.loop_n = n)

\* points.sort(key=lambda p: p.id) (line 248): a stable sort
RECURSIVE InsertById(_, _)
InsertById(sorted, p) ==
    IF sorted = << >> THEN <<p>>
    ELSE IF sorted[Len(sorted)].id <= p.id THEN Append(sorted, p)
    ELSE Append(InsertById(SubSeq(sorted, 1, Len(sorted) - 1), p),
                sorted[Len(sorted)])

RECURSIVE SortById(_, _)
SortById(points, acc) ==
    IF points = << >> THEN acc
    ELSE SortById(Tail(points), InsertById(acc, Head(points)))

\* the locals at the head of one loop's walk (lines 251-252)
GeomLoopStart(geometries, points, cnv) ==
    [geometries |-> geometries, elements |-> << >>,
     cx |-> Mul(points[1].x, cnv), cy |-> Mul(points[1].y, cnv)]

\* an arc branch whose two flips do not multiply: the offset is turned once,
\* whether one of the conditions holds or both
GeomArcFlipsOnce(g, point, cnv) ==
    LET xp == g.cx
        yp == g.cy
        xn == Mul(point.x, cnv)
        yn == Mul(point.y, cnv)
        angle == point.angle
        dist == Sqrt((xp - xn) * (xp - xn) + (yp - yn) * (yp - yn))
    IN  IF dist = 0 THEN g
        ELSE
        LET xm == (xp + xn) \div 2
            ym == (yp + yn) \div 2
            rise_x == ((xn - xp) * TrigDen) \div dist
            rise_y == ((yn - yp) * TrigDen) \div dist
            sin_half == SinDeg(angle \div (2 * FP))
        IN  IF sin_half = 0 THEN g
            ELSE
            LET dist_over_2 == dist \div 2
                radius == Abs((dist_over_2 * TrigDen) \div sin_half)
                over180 == IF Abs(angle) > 180 * FP \/ angle < 0 THEN -1 ELSE 1
                negative == 1
                dist_m_to_c == Sqrt(Max(0, radius * radius - dist_over_2 * dist_over_2))
                xc == xm - ((rise_y * dist_m_to_c) \div TrigDen) * over180 * negative
                yc == ym + ((rise_x * dist_m_to_c) \div TrigDen) * over180 * negative
                a0 == Atan2Deg(yp - yc, xp - xc)
                start_ang == IF a0 < 0 THEN a0 + 360 * FP
                             ELSE IF a0 > 360 * FP THEN a0 - 360 * FP ELSE a0
            IN  [g EXCEPT !.elements = Append(@, ArcEl(xc, yc, radius, start_ang, angle)),
                          !.cx = xn, !.cy = yn]

\* the arc branch (lines 270-309)
GeomArc(g, point, cnv) ==
    LET xp == g.cx
        yp == g.cy
        xn == Mul(point.x, cnv)
        yn == Mul(point.y, cnv)
        angle == point.angle
        dist == Sqrt((xp - xn) * (xp - xn) + (yp - yn) * (yp - yn))
    IN  IF dist = 0 THEN g
        ELSE
        LET xm == (xp + xn) \div 2
            ym == (yp + yn) \div 2
            rise_x == ((xn - xp) * TrigDen) \div dist
            rise_y == ((yn - yp) * TrigDen) \div dist
            sin_half == SinDeg(angle \div (2 * FP))
        IN  IF sin_half = 0 THEN g
            ELSE
            LET dist_over_2 == dist \div 2
                radius == Abs((dist_over_2 * TrigDen) \div sin_half)
                over180 == IF Abs(angle) > 180 * FP THEN -1 ELSE 1
                negative == IF angle < 0 THEN -1 ELSE 1
                dist_m_to_c == Sqrt(Max(0, radius * radius - dist_over_2 * dist_over_2))
                xc == xm - ((rise_y * dist_m_to_c) \div TrigDen) * over180 * negative
                yc == ym + ((rise_x * dist_m_to_c) \div TrigDen) * over180 * negative
                a0 == Atan2Deg(yp - yc, xp - xc)
                start_ang == IF a0 < 0 THEN a0 + 360 * FP
                             ELSE IF a0 > 360 * FP THEN a0 - 360 * FP ELSE a0
            IN  [g EXCEPT !.elements = Append(@, ArcEl(xc, yc, radius, start_ang, angle)),
                          !.cx = xn, !.cy = yn]

\* a walk that puts the vertex of a skipped arc among the elements as a
\* point and moves the current point there
GeomVertexSkippedArcAsPoint(g, point, cnv) ==
    IF point.angle = 0 \/ (Abs(point.angle) # 360 * FP /\ GeomArc(g, point, cnv) = g)
    THEN [g EXCEPT !.elements = Append(@, Pt(Mul(point.x, cnv), Mul(point.y, cnv))),
                   !.cx = Mul(point.x, cnv), !.cy = Mul(point.y, cnv)]
    ELSE IF Abs(point.angle) = 360 * FP
    THEN LET nx == Mul(point.x, cnv)
             ny == Mul(point.y, cnv)
             dist == Sqrt((g.cx - nx) * (g.cx - nx) + (g.cy - ny) * (g.cy - ny))
         IN  [g EXCEPT !.geometries = Append(@, Circle(dist)),
                       !.cx = nx, !.cy = ny]
    ELSE GeomArc(g, point, cnv)

\* one iteration of the loop over a loop's points (lines 254-309)
GeomVertex(g, point, cnv) ==
    IF point.angle = 0
    THEN [g EXCEPT !.elements = Append(@, Pt(Mul(point.x, cnv), Mul(point.y, cnv))),
                   !.cx = Mul(point.x, cnv), !.cy = Mul(point.y, cnv)]
    ELSE IF Abs(point.angle) = 360 * FP
    THEN LET nx == Mul(point.x, cnv)
             ny == Mul(point.y, cnv)
             dist == Sqrt((g.cx - nx) * (g.cx - nx) + (g.cy - ny) * (g.cy - ny))
         IN  [g EXCEPT !.geometries = Append(@, Circle(dist)),
                       !.cx = nx, !.cy = ny]
    ELSE GeomArc(g, point, cnv)

\* a loop end that closes every polygon with its first point again
GeomLoopEndReclosing(g) ==
    IF \E k \in 1..Len(g.elements) : g.elements[k].t = "arc"
    THEN Append(g.geometries, ArcPolygon(g.elements))
    ELSE LET points == SelectSeq(g.elements, LAMBDA e : e.t = "pt")
         IN  IF Len(points) >= 3
             THEN Append(g.geometries, Polygon(Append(points, points[1])))
             ELSE g.geometries

\* a loop end that puts the points of an ArcPolygon before its arcs
GeomLoopEndPointsFirst(g) ==
    IF \E k \in 1..Len(g.elements) : g.elements[k].t = "arc"
    THEN Append(g.geometries,
                ArcPolygon(SelectSeq(g.elements, LAMBDA e : e.t = "pt")
                           \o SelectSeq(g.elements, LAMBDA e : e.t = "arc")))
    ELSE LET points == SelectSeq(g.elements, LAMBDA e : e.t = "pt")
         IN  IF Len(points) >= 3 THEN Append(g.geometries, Polygon(points))
             ELSE g.geometries

\* after a loop's walk (lines 311-321): the shape made of its elements
GeomLoopEnd(g) ==
    IF Len(g.elements) = 1 /\ g.elements[1].t = "circle"
    THEN Append(g.geometries, Circle(g.elements[1].r))
    ELSE IF \E k \in 1..Len(g.elements) : g.elements[k].t = "arc"
    THEN Append(g.geometries, ArcPolygon(g.elements))
    ELSE LET points == SelectSeq(g.elements, LAMBDA e : e.t = "pt")
         IN  IF Len(points) >= 3 THEN Append(g.geometries, Polygon(points))
             ELSE g.geometries

RECURSIVE GeomWalk(_, _, _, _)
GeomWalk(g, points, k, cnv) ==
    IF k > Len(points) THEN g
    ELSE GeomWalk(GeomVertex(g, points[k], cnv), points, k + 1, cnv)

\* one iteration of the loop over loops.values() (lines 246-321)
GeomLoop(geometries, points, cnv) ==
    LET sorted == SortById(points, << >>)
    IN  GeomLoopEnd(GeomWalk(GeomLoopStart(geometries, sorted, cnv), sorted, 1, cnv))

RECURSIVE GeomLoops(_, _, _, _)
GeomLoops(geometries, loop_points, keys, cnv) ==
    IF keys = << >> THEN geometries
    ELSE GeomLoops(GeomLoop(geometries, LoopOf(loop_points, Head(keys)), cnv),
                   loop_points, Tail(keys), cnv)

\* _points_to_geometry(loop_points) with self.ucnv = cnv (lines 233-323)
PointsToGeometry(loop_points, cnv) ==
    IF loop_points = << >> THEN << >>
    ELSE GeomLoops(<< >>, loop_points, LoopKeys(loop_points, << >>), cnv)

----------------------------------------------------------------------------
(* IdfParser.parse: the state of one call *)

\* The parser state as a record p: self.ucnv, self.loop_id_seq and the
\* locals of parse().  i is 1-based: tokens[i] here is tokens[i - 1] there.
\* pc is "read" before the file is tokenized, "scan" in the while loop,
\* "returned" after return IdfFile(...) and "raised" after an exception left
\* parse(); err is that exception and result the returned IdfFile.
\* dispatched is history: the section-start tokens the scanner has acted on.

NoFile == [returned |-> FALSE]

\* IdfParser.__init__ (lines 117-120) and the locals of parse (lines 339-351)
ParserStart(lines) ==
    [content |-> lines, tokens |-> << >>, i |-> 1, pc |-> "read",
     err |-> NoError, ucnv |-> UcnvMM, loop_id_seq |-> 0,
     headers |-> << >>, board_outlines |-> << >>, other_outlines |-> << >>,
     route_outlines |-> << >>, route_keepouts |-> << >>, via_keepouts |-> << >>,
     place_keepouts |-> << >>, holes |-> << >>, notes |-> << >>,
     placement |-> << >>, result |-> NoFile, dispatched |-> << >>]

Raise(p, e) == [p EXCEPT !.pc = "raised", !.err = e]

RECURSIVE Flatten(_)
Flatten(ss) == IF ss = << >> THEN << >> ELSE Head(ss) \o Flatten(Tail(ss))

\* lines 331-334: every line is stripped and tokenized, the tokens joined
RECURSIVE TokenizeLines(_)
TokenizeLines(lines) ==
    IF lines = << >> THEN << >>
    ELSE TokenizeLine(Strip(Head(lines))) \o TokenizeLines(Tail(lines))

\* line 337: tokens = [t for t in tokens if t]
RemoveEmptyTokens(toks) == SelectSeq(toks, LAMBDA t : t # << >>)

\* lines 327-351
ReadStep(p) ==
    [p EXCEPT !.tokens = RemoveEmptyTokens(TokenizeLines(p.content)),
              !.i = 1, !.pc = "scan"]

\* tokens[i+1:]
Rest(p) == SubSeq(p.tokens, p.i + 1, Len(p.tokens))

\* tokens.index(match_str) + 1, or 0 when list.index raises ValueError
RECURSIVE IndexFrom(_, _, _)
IndexFrom(toks, match_str, k) ==
    IF k > Len(toks) THEN 0
    ELSE IF toks[k] = T(match_str) THEN k
    ELSE IndexFrom(toks, match_str, k + 1)

\* a _find_section_end that takes the end of the stream for a missing marker
FindSectionEndOrStreamEnd(toks, match_str) ==
    IF IndexFrom(toks, match_str, 1) = 0 THEN Len(toks) + 1
    ELSE IndexFrom(toks, match_str, 1)

\* _find_section_end (lines 122-127): end_pos + 1, or 0 when it raises
FindSectionEnd(toks, match_str) == IndexFrom(toks, match_str, 1)

\* an index that is left on the end marker instead of past it
AdvanceOntoMarker(p, e) == p.i + e

\* i = i + 1 + end_pos + 1, e being end_pos + 1
Advance(p, e) == p.i + e + 1

\* the .HEADER branch (lines 355-379)
HeaderStep(p) ==
    LET e == FindSectionEnd(Rest(p), ".END_HEADER")
        header_tokens == SubSeq(Rest(p), 1, e - 1)
        n == Len(header_tokens)
        q == [p EXCEPT !.dispatched = Append(@, p.tokens[p.i])]
    IN  IF e = 0 THEN Raise(q, NotFound(".END_HEADER"))
        ELSE IF n < 2 THEN Raise(q, IndexError)
        ELSE IF ~IsFloat(header_tokens[2]) THEN Raise(q, ValueError)
        ELSE IF n < 5 THEN Raise(q, IndexError)
        ELSE IF ~IsInt(header_tokens[5]) THEN Raise(q, ValueError)
        ELSE IF n < 7 THEN Raise(q, IndexError)
        ELSE LET header == [filetype |-> header_tokens[1],
                            idf_version |-> FloatOf(header_tokens[2]),
                            source_system |-> header_tokens[3],
                            date |-> header_tokens[4],
                            version |-> IntOf(header_tokens[5]),
                            name |-> header_tokens[6],
                            units |-> header_tokens[7]]
             IN  [q EXCEPT !.headers = Append(@, header),
                           !.ucnv = IF header.units = T("THOU") THEN UcnvThou
                                    ELSE IF header.units = T("MM") THEN UcnvMM
                                    ELSE UcnvMM,
                           !.i = Advance(p, e)]

\* IdfOutline(...)
IdfOutline(owner, ident, thickness, layers, outline, cutouts) ==
    [owner |-> owner, ident |-> ident, thickness |-> thickness,
     layers |-> layers, outline |-> outline, cutouts |-> cutouts]

\* The seven outline branches (lines 381-532) differ in the end marker they
\* look for, in how many leading tokens they skip, in the collection they
\* append to and in where the record's fields come from; this is their shared
\* body.  ident_k, thickness_k, layers_k are 1-based places in section_tokens,
\* 0 meaning: ident is the section-start token, thickness is 0.0, layers is
\* "".  The owner is section_tokens[0].  with_cutouts tells whether the shapes
\* after the first become the record's cutouts.  As in the code, the record
\* is built only when the section gave a shape, and float(thickness) is
\* evaluated then.
OutlineStep(p, end_marker, skip, field, ident_k, thickness_k, layers_k, with_cutouts) ==
    LET e == FindSectionEnd(Rest(p), end_marker)
        section_tokens == SubSeq(Rest(p), 1, e - 1)
        loop_tokens == SubSeq(section_tokens, skip + 1, Len(section_tokens))
        lp == ParseLoopPoints(loop_tokens, p.loop_id_seq)
        geometries == PointsToGeometry(lp.points, p.ucnv)
        q == [p EXCEPT !.dispatched = Append(@, p.tokens[p.i])]
        r == [q EXCEPT !.loop_id_seq = lp.seq]
    IN  IF e = 0 THEN Raise(q, NotFound(end_marker))
        ELSE IF lp.err # NoError THEN Raise(r, lp.err)
        ELSE IF geometries = << >> THEN [r EXCEPT !.i = Advance(p, e)]
        ELSE IF thickness_k # 0 /\ ~IsFloat(section_tokens[thickness_k])
        THEN Raise(r, ValueError)
        ELSE LET rec == IdfOutline(
                     section_tokens[1],
                     IF ident_k = 0 THEN p.tokens[p.i] ELSE section_tokens[ident_k],
                     IF thickness_k = 0 THEN 0
                     ELSE FloatOf(section_tokens[thickness_k]),
                     IF layers_k = 0 THEN << >> ELSE section_tokens[layers_k],
                     geometries[1],
                     IF with_cutouts THEN SubSeq(geometries, 2, Len(geometries))
                     ELSE << >>)
             IN  [r EXCEPT ![field] = Append(@, rec), !.i = Advance(p, e)]

\* a board outline branch that wants the header first: it raises the
\* cardinality error at once when no header has been decoded
BoardOutlineStepHeaderFirst(p) ==
    IF p.headers = << >> THEN Raise(p, Expected("header", 0))
    ELSE OutlineStep(p, ".END_BOARD_OUTLINE", 2, "board_outlines", 0, 2, 0, TRUE)

\* .BOARD_OUTLINE and .PANEL_OUTLINE (lines 381-403)
BoardOutlineStep(p) ==
    OutlineStep(p, ".END_BOARD_OUTLINE", 2, "board_outlines", 0, 2, 0, TRUE)

\* .OTHER_OUTLINE (lines 405-427)
OtherOutlineStep(p) ==
    OutlineStep(p, ".END_OTHER_OUTLINE", 4, "other_outlines", 2, 3, 4, TRUE)

\* .ROUTE_OUTLINE (lines 429-448)
RouteOutlineStep(p) ==
    OutlineStep(p, ".END_ROUTE_OUTLINE", 2, "route_outlines", 0, 0, 2, FALSE)

\* .PLACE_OUTLINE (lines 450-469): appended to route_outlines
PlaceOutlineStep(p) ==
    OutlineStep(p, ".END_PLACE_OUTLINE", 3, "route_outlines", 0, 3, 2, FALSE)

\* .ROUTE_KEEPOUT (lines 471-490)
RouteKeepoutStep(p) ==
    OutlineStep(p, ".END_ROUTE_KEEPOUT", 2, "route_keepouts", 0, 0, 2, FALSE)

\* .VIA_KEEPOUT (lines 492-511)
ViaKeepoutStep(p) ==
    OutlineStep(p, ".END_VIA_KEEPOUT", 1, "via_keepouts", 0, 0, 0, FALSE)

\* .PLACE_KEEPOUT (lines 513-532)
PlaceKeepoutStep(p) ==
    OutlineStep(p, ".END_PLACE_KEEPOUT", 3, "place_keepouts", 0, 3, 2, FALSE)

\* The three record branches (lines 534-553) share this body: decoded is the
\* decoder's result on the section's tokens.
RecordsCommit(p, e, end_marker, field, decoded) ==
    LET q == [p EXCEPT !.dispatched = Append(@, p.tokens[p.i])]
    IN  IF e = 0 THEN Raise(q, NotFound(end_marker))
        ELSE IF decoded.err # NoError THEN Raise(q, decoded.err)
        ELSE [q EXCEPT ![field] = @ \o decoded.recs, !.i = Advance(p, e)]

\* a holes branch that takes the factor from the file's units wherever the
\* header stands, before or after the section
DrilledHolesStepFileUnits(p) ==
    LET e == FindSectionEnd(Rest(p), ".END_DRILLED_HOLES")
        cnv == IF Contains(p.tokens, T("THOU")) THEN UcnvThou ELSE UcnvMM
    IN  RecordsCommit(p, e, ".END_DRILLED_HOLES", "holes",
                      ParseHoles(SubSeq(Rest(p), 1, e - 1), cnv))

\* .DRILLED_HOLES (lines 534-539)
DrilledHolesStep(p) ==
    LET e == FindSectionEnd(Rest(p), ".END_DRILLED_HOLES")
    IN  RecordsCommit(p, e, ".END_DRILLED_HOLES", "holes",
                      ParseHoles(SubSeq(Rest(p), 1, e - 1), p.ucnv))

\* .NOTES (lines 541-546)
NotesStep(p) ==
    LET e == FindSectionEnd(Rest(p), ".END_NOTES")
    IN  RecordsCommit(p, e, ".END_NOTES", "notes",
                      ParseNotes(SubSeq(Rest(p), 1, e - 1), p.ucnv))

\* .PLACEMENT (lines 548-553)
PlacementStep(p) ==
    LET e == FindSectionEnd(Rest(p), ".END_PLACEMENT")
    IN  RecordsCommit(p, e, ".END_PLACEMENT", "placement",
                      ParsePlacement(SubSeq(Rest(p), 1, e - 1), p.ucnv))

\* the last two branches (lines 555-559): any other token is stepped over
SkipStep(p) == [p EXCEPT !.i = p.i + 1]

\* IdfFile(...) (lines 568-580)
IdfFile(p) ==
    [returned |-> TRUE,
     header |-> p.headers[1],
     board_outline |-> p.board_outlines[1].outline,
     board_cutouts |-> p.board_outlines[1].cutouts,
     other_outlines |-> p.other_outlines,
     route_outlines |-> p.route_outlines,
     route_keepouts |-> p.route_keepouts,
     via_keepouts |-> p.via_keepouts,
     place_keepouts |-> p.place_keepouts,
     holes |-> p.holes,
     notes |-> p.notes,
     placement |-> p.placement]

\* after the loop (lines 561-580)
ValidateStep(p) ==
    IF Len(p.headers) # 1 THEN Raise(p, Expected("header", Len(p.headers)))
    ELSE IF Len(p.board_outlines) # 1
    THEN Raise(p, Expected("board outline", Len(p.board_outlines)))
    ELSE [p EXCEPT !.pc = "returned", !.result = IdfFile(p)]

\* the section-start tokens and the branch of each
SectionStarts ==
    {".HEADER", ".BOARD_OUTLINE", ".PANEL_OUTLINE", ".OTHER_OUTLINE",
     ".ROUTE_OUTLINE", ".PLACE_OUTLINE", ".ROUTE_KEEPOUT", ".VIA_KEEPOUT",
     ".PLACE_KEEPOUT", ".DRILLED_HOLES", ".NOTES", ".PLACEMENT"}

IsSectionStart(tok) == \E s \in SectionStarts : tok = T(s)

\* one step of parse() from p: the tokenizing, one iteration of the while
\* loop (lines 352-559), or what follows the loop
ParseStep(p) ==
    IF p.pc = "read" THEN ReadStep(p)
    ELSE IF p.i > Len(p.tokens) THEN ValidateStep(p)
    ELSE LET token == p.tokens[p.i]
         IN  IF token = T(".HEADER") THEN HeaderStep(p)
             ELSE IF token \in {T(".BOARD_OUTLINE"), T(".PANEL_OUTLINE")}
             THEN BoardOutlineStep(p)
             ELSE IF token = T(".OTHER_OUTLINE") THEN OtherOutlineStep(p)
             ELSE IF token = T(".ROUTE_OUTLINE") THEN RouteOutlineStep(p)
             ELSE IF token = T(".PLACE_OUTLINE") THEN PlaceOutlineStep(p)
             ELSE IF token = T(".ROUTE_KEEPOUT") THEN RouteKeepoutStep(p)
             ELSE IF token = T(".VIA_KEEPOUT") THEN ViaKeepoutStep(p)
             ELSE IF token = T(".PLACE_KEEPOUT") THEN PlaceKeepoutStep(p)
             ELSE IF token = T(".DRILLED_HOLES") THEN DrilledHolesStep(p)
             ELSE IF token = T(".NOTES") THEN NotesStep(p)
             ELSE IF token = T(".PLACEMENT") THEN PlacementStep(p)
             ELSE SkipStep(p)

\* parse() run to its end from p: what idf_parser(filename) gives (lines
\* 591-594) when started from ParserStart(lines)
RECURSIVE ParseFrom(_)
ParseFrom(p) == IF p.pc \in {"returned", "raised"} THEN p ELSE ParseFrom(ParseStep(p))

IdfParserRun(lines) == ParseFrom(ParserStart(lines))

----------------------------------------------------------------------------
(* The tokenizer, one loop iteration at a time *)

RECURSIVE SeqsUpTo(_, _)
SeqsUpTo(S, n) ==
    IF n = 0 THEN {<< >>}
    ELSE LET shorter == SeqsUpTo(S, n - 1)
         IN  shorter \cup {Append(s, c) : s \in {t \in shorter : Len(t) = n - 1}, c \in S}

\* the parser's variables in a specification that does not run the parser
ParseIdle ==
    /\ content = << >> /\ tokens = << >> /\ i = 1 /\ pc = "idle"
    /\ err = NoError /\ ucnv = UcnvMM /\ loop_id_seq = 0
    /\ headers = << >> /\ board_outlines = << >> /\ other_outlines = << >>
    /\ route_outlines = << >> /\ route_keepouts = << >> /\ via_keepouts = << >>
    /\ place_keepouts = << >> /\ holes = << >> /\ notes = << >>
    /\ placement = << >> /\ result = NoFile /\ dispatched = << >>

\* the tokenizer's variables in a specification that does not step it
TokIdle ==
    /\ tk_raw = << >> /\ tk_line = << >> /\ tk_i = 1 /\ tk_in_quote = FALSE
    /\ tk_current_token = << >> /\ tk_tokens = << >> /\ tk_pc = "idle"
    /\ tk_lits = << >>

\* no call of idf_parser counted, no call of _points_to_geometry under way
NoOutcome == [pc |-> "none", err |-> NoError, result |-> NoFile]
CallIdle == calls = 0 /\ first = NoOutcome

NoAcc == [geometries |-> << >>, elements |-> << >>, cx |-> 0, cy |-> 0]
GeomIdle ==
    /\ g_loop_points = << >> /\ g_cnv = UcnvMM /\ g_keys = << >>
    /\ g_points = << >> /\ g_k = 1 /\ g_acc = NoAcc /\ g_pc = "idle"
    /\ g_shape_loop = << >>

\* no IdfFile handed to the importer
LayersIdle == rk_layers = << >> /\ layer_sets = << >> /\ feature_layers = << >>

TokState == [tokens |-> tk_tokens, in_quote |-> tk_in_quote,
             current_token |-> tk_current_token]

TokInit ==
    /\ tk_raw \in SeqsUpTo(TokAlphabet, MaxLineLen)
    /\ tk_line = Strip(tk_raw)
    /\ tk_i = 1
    /\ tk_in_quote = FALSE
    /\ tk_current_token = << >>
    /\ tk_tokens = << >>
    /\ tk_pc = "loop"
    /\ tk_lits = << >>
    /\ ParseIdle /\ CallIdle /\ GeomIdle /\ LayersIdle

\* history of the literal closed by this iteration, if any: the position of
\* its opening quote, of its closing quote, and the index of the token the
\* closing quote appended
RECURSIVE LastOpen(_, _)
LastOpen(line, k) ==
    \* the opening quote of the literal that the quote at k closes: quotes
    \* toggle, so it is the nearest quote to the left
    IF line[k] = Quote THEN k ELSE LastOpen(line, k - 1)

TokLoop ==
    /\ tk_pc = "loop"
    /\ tk_i <= Len(tk_line)
    /\ LET st == TokChar(TokState, tk_line[tk_i])
       IN  /\ tk_tokens' = st.tokens
           /\ tk_in_quote' = st.in_quote
           /\ tk_current_token' = st.current_token
           /\ tk_lits' = IF tk_in_quote /\ tk_line[tk_i] = Quote
                         THEN Append(tk_lits,
                                     [open |-> LastOpen(tk_line, tk_i - 1),
                                      close |-> tk_i,
                                      token |-> Len(st.tokens)])
                         ELSE tk_lits
    /\ tk_i' = tk_i + 1
    /\ UNCHANGED <<tk_raw, tk_line, tk_pc>>
    /\ UNCHANGED <<parseVars, callVars, geomVars, layerVars>>

TokLoopEnd ==
    /\ tk_pc = "loop"
    /\ tk_i > Len(tk_line)
    /\ tk_tokens' = TokFlush(TokState)
    /\ tk_pc' = "done"
    /\ UNCHANGED <<tk_raw, tk_line, tk_i, tk_in_quote, tk_current_token, tk_lits>>
    /\ UNCHANGED <<parseVars, callVars, geomVars, layerVars>>

TokNext == TokLoop \/ TokLoopEnd

SpecTok == TokInit /\ [][TokNext]_vars

----------------------------------------------------------------------------
(* The files of the parser specification *)

\* a bare word, a quoted literal of one word, of two words, and ""
W(s) == <<s>>
Q(s) == <<Quote, s, Quote>>
Q2(a, b) == <<Quote, a, Space, b, Quote>>
QEmpty == <<Quote, Quote>>

\* a line: the fields separated by single spaces
RECURSIVE Fields(_)
Fields(fs) ==
    IF Len(fs) = 1 THEN fs[1] ELSE fs[1] \o <<Space>> \o Fields(Tail(fs))

\* a loop vertex line: loop index, x, y, bulge angle
V(n, x, y, a) == Fields(<<W(n), W(x), W(y), W(a)>>)

HeaderLines(units) ==
    << W(".HEADER"),
       Fields(<<W("IDF_FILE"), W("3.0"), Q2("Test", "System"), Q("2024-01-01"),
                W("1"), Q("TestBoard"), Q(units)>>),
       W(".END_HEADER") >>

\* the 100 x 50 rectangle of the test fixtures, closed by its first vertex
Rect(n) ==
    << V(n, "0", "0", "0"), V(n, "100", "0", "0"), V(n, "100", "50", "0"),
       V(n, "0", "50", "0"), V(n, "0", "0", "0") >>

Section(head, body, end_marker) == <<Fields(head)>> \o body \o <<W(end_marker)>>

BoardRect ==
    Section(<<W(".BOARD_OUTLINE"), Q("OWNER"), W("1.6")>>, Rect("0"),
            ".END_BOARD_OUTLINE")
\* a board outline of two vertices: no shape comes of it
BoardTwoPoints ==
    Section(<<W(".BOARD_OUTLINE"), Q("OWNER"), W("1.6")>>,
            << V("0", "0", "0", "0"), V("0", "100", "0", "0") >>,
            ".END_BOARD_OUTLINE")
\* a full circle on the chord from (0,50) to (100,50), the chord length of
\* test_circle_radius
BoardCircle ==
    Section(<<W(".BOARD_OUTLINE"), Q("OWNER"), W("1.6")>>,
            << V("0", "0", "50", "0"), V("0", "100", "50", "360") >>,
            ".END_BOARD_OUTLINE")
\* the rectangle, and in the same loop a full circle from its last vertex
\* (0,0) to (50,0)
BoardRectCircle ==
    Section(<<W(".BOARD_OUTLINE"), Q("OWNER"), W("1.6")>>,
            Rect("0") \o << V("0", "50", "0", "360") >>,
            ".END_BOARD_OUTLINE")
PanelEndBoard ==
    Section(<<W(".PANEL_OUTLINE"), Q("OWNER"), W("1.6")>>, Rect("0"),
            ".END_BOARD_OUTLINE")
PanelEndPanel ==
    Section(<<W(".PANEL_OUTLINE"), Q("OWNER"), W("1.6")>>, Rect("0"),
            ".END_PANEL_OUTLINE")
OtherOutlineLines ==
    Section(<<W(".OTHER_OUTLINE"), Q("OWNER"), Q("ID1"), W("1.6"), W("TOP")>>,
            Rect("0"), ".END_OTHER_OUTLINE")
RouteOutlineLines ==
    Section(<<W(".ROUTE_OUTLINE"), Q("OWNER"), W("ALL")>>, Rect("0"),
            ".END_ROUTE_OUTLINE")
PlaceOutlineLines ==
    Section(<<W(".PLACE_OUTLINE"), Q("OWNER"), Q("TOP"), W("5")>>, Rect("0"),
            ".END_PLACE_OUTLINE")
RouteKeepoutLines ==
    Section(<<W(".ROUTE_KEEPOUT"), Q("OWNER"), W("TOP")>>, Rect("0"),
            ".END_ROUTE_KEEPOUT")
ViaKeepoutLines ==
    Section(<<W(".VIA_KEEPOUT"), Q("OWNER")>>, Rect("0"), ".END_VIA_KEEPOUT")
PlaceKeepoutLines ==
    Section(<<W(".PLACE_KEEPOUT"), Q("OWNER"), W("BOTH"), W("5")>>, Rect("0"),
            ".END_PLACE_KEEPOUT")
HolesLines ==
    Section(<<W(".DRILLED_HOLES")>>,
            << Fields(<<W("5"), W("50"), W("50"), Q("PTH"), Q("VIA"), Q("THRU"),
                        Q("OWNER")>>) >>,
            ".END_DRILLED_HOLES")
NotesLines ==
    Section(<<W(".NOTES")>>,
            << Fields(<<W("50"), W("50"), W("5"), W("100"), Q2("KEEP", "OUT")>>) >>,
            ".END_NOTES")
PlacementLines ==
    Section(<<W(".PLACEMENT")>>,
            << Fields(<<Q("PKG"), Q("PN1"), Q("R1"), W("50"), W("50"), W("0"),
                        W("90"), Q("TOP"), Q("PLACED")>>) >>,
            ".END_PLACEMENT")
\* the placement record of test_empty_partnumber_preserved
EmptyPartNumberRecord ==
    Fields(<<Q("PKG"), QEmpty, Q("R1"), W("50"), W("50"), W("0"), W("0"),
             Q("TOP"), Q("PLACED")>>)
PlacementEmptyPN ==
    Section(<<W(".PLACEMENT")>>, <<EmptyPartNumberRecord>>, ".END_PLACEMENT")
\* a vendor section with plain content, and one whose content has a word
\* that is a section keyword
CustomPlain ==
    Section(<<W(".CUSTOM_SECTION")>>,
            << Fields(<<W("some"), W("random"), W("data"), W("123")>>) >>,
            ".END_CUSTOM_SECTION")
CustomKeyword ==
    Section(<<W(".CUSTOM_SECTION")>>,
            << Fields(<<W("see"), W(".NOTES"), W("below")>>) >>,
            ".END_CUSTOM_SECTION")

\* the smallest valid file: a header and a board outline
ValidCore == HeaderLines("MM") \o BoardRect

\* the same in thousandths of an inch, and with a unit tag the parser does
\* not know
ValidCoreThou == HeaderLines("THOU") \o BoardRect
ValidCoreOther == HeaderLines("CM") \o BoardRect

\* a 50 x 50 square, closed by its first vertex
SmallRect(n) ==
    << V(n, "0", "0", "0"), V(n, "50", "0", "0"), V(n, "50", "50", "0"),
       V(n, "0", "50", "0"), V(n, "0", "0", "0") >>

\* the board of the fixture emn_with_cutout: loop 0 the outline, loop 1 a
\* cutout; and the same two loops with loop 1 written first
BoardCutout ==
    Section(<<W(".BOARD_OUTLINE"), Q("OWNER"), W("1.6")>>,
            Rect("0") \o SmallRect("1"), ".END_BOARD_OUTLINE")
BoardCutoutFirst ==
    Section(<<W(".BOARD_OUTLINE"), Q("OWNER"), W("1.6")>>,
            SmallRect("1") \o Rect("0"), ".END_BOARD_OUTLINE")
\* the rectangle without its repeated final vertex
BoardOpenRect ==
    Section(<<W(".BOARD_OUTLINE"), Q("OWNER"), W("1.6")>>,
            SubSeq(Rect("0"), 1, 4), ".END_BOARD_OUTLINE")

\* an IDF 2.0 file (test_idf2_holes_5_fields): the two-line header, the
\* board outline without an owner, and holes of five fields
HeaderV2Lines ==
    << W(".HEADER"),
       Fields(<<W("BOARD_FILE"), W("2.0"), Q("TestCAD"), W("2024/01/01"), W("1")>>),
       Fields(<<W("MyBoard"), W("MM")>>),
       W(".END_HEADER") >>
BoardV2 ==
    <<W(".BOARD_OUTLINE"), W("1.6")>> \o Rect("0") \o <<W(".END_BOARD_OUTLINE")>>
CoreV2 == HeaderV2Lines \o BoardV2
HolesV2Lines ==
    Section(<<W(".DRILLED_HOLES")>>,
            << Fields(<<W("2.0"), W("50"), W("50"), W("PTH"), W("VIA")>>),
               Fields(<<W("3.0"), W("100"), W("50"), W("NPTH"), W("MTG")>>) >>,
            ".END_DRILLED_HOLES")

\* malformed content: a header without its units field, a vertex whose x is
\* not a number, a placement record without its part number
HeaderShort ==
    << W(".HEADER"),
       Fields(<<W("IDF_FILE"), W("3.0"), Q2("Test", "System"), Q("2024-01-01"),
                W("1"), Q("TestBoard")>>),
       W(".END_HEADER") >>
BoardBadNumber ==
    Section(<<W(".BOARD_OUTLINE"), Q("OWNER"), W("1.6")>>,
            << V("0", "0", "0", "0"), V("0", "abc", "0", "0") >>,
            ".END_BOARD_OUTLINE")
ShortPlacementRecord ==
    Fields(<<Q("PKG"), Q("R1"), W("50"), W("50"), W("0"), W("0"),
             Q("TOP"), Q("PLACED")>>)
PlacementShort ==
    Section(<<W(".PLACEMENT")>>, <<ShortPlacementRecord>>, ".END_PLACEMENT")

\* the fragments a file is made of
Fragments ==
    { ValidCore, ValidCoreThou, ValidCoreOther, CoreV2, HeaderShort,
      BoardCutout, BoardCutoutFirst, BoardOpenRect, BoardBadNumber,
      HolesV2Lines, PlacementShort,
      HeaderLines("MM"), HeaderLines("THOU"), BoardRect,
      BoardTwoPoints, BoardCircle, BoardRectCircle, PanelEndBoard, PanelEndPanel,
      OtherOutlineLines, RouteOutlineLines, PlaceOutlineLines,
      RouteKeepoutLines, ViaKeepoutLines, PlaceKeepoutLines, HolesLines,
      NotesLines, PlacementLines, PlacementEmptyPN, CustomPlain, CustomKeyword }

\* the files: up to MaxBlocks fragments one after the other, whole or with
\* the last line missing (a section cut off before its end marker)
FragmentLists == SeqsUpTo(Fragments, MaxBlocks)

WithoutLastLine(lines) ==
    IF lines = << >> THEN lines ELSE SubSeq(lines, 1, Len(lines) - 1)

WholeFiles == {Flatten(fl) : fl \in FragmentLists}

Files == WholeFiles \cup {WithoutLastLine(f) : f \in WholeFiles}

----------------------------------------------------------------------------
(* One call of parse(), one loop iteration at a time *)

P == [content |-> content, tokens |-> tokens, i |-> i, pc |-> pc, err |-> err,
      ucnv |-> ucnv, loop_id_seq |-> loop_id_seq, headers |-> headers,
      board_outlines |-> board_outlines, other_outlines |-> other_outlines,
      route_outlines |-> route_outlines, route_keepouts |-> route_keepouts,
      via_keepouts |-> via_keepouts, place_keepouts |-> place_keepouts,
      holes |-> holes, notes |-> notes, placement |-> placement,
      result |-> result, dispatched |-> dispatched]

Assign(q) ==
    /\ content' = q.content /\ tokens' = q.tokens /\ i' = q.i /\ pc' = q.pc
    /\ err' = q.err /\ ucnv' = q.ucnv /\ loop_id_seq' = q.loop_id_seq
    /\ headers' = q.headers /\ board_outlines' = q.board_outlines
    /\ other_outlines' = q.other_outlines /\ route_outlines' = q.route_outlines
    /\ route_keepouts' = q.route_keepouts /\ via_keepouts' = q.via_keepouts
    /\ place_keepouts' = q.place_keepouts /\ holes' = q.holes
    /\ notes' = q.notes /\ placement' = q.placement /\ result' = q.result
    /\ dispatched' = q.dispatched

\* a step of parse(): nothing else moves
Commit(q) == Assign(q) /\ UNCHANGED <<tokVars, callVars, geomVars, layerVars>>

\* before the first call: nothing read, nothing decoded
NotStarted ==
    /\ tokens = << >> /\ i = 1 /\ pc = "read" /\ err = NoError
    /\ ucnv = UcnvMM /\ loop_id_seq = 0
    /\ headers = << >> /\ board_outlines = << >> /\ other_outlines = << >>
    /\ route_outlines = << >> /\ route_keepouts = << >> /\ via_keepouts = << >>
    /\ place_keepouts = << >> /\ holes = << >> /\ notes = << >>
    /\ placement = << >> /\ result = NoFile /\ dispatched = << >>
    /\ TokIdle /\ CallIdle /\ GeomIdle /\ LayersIdle

Init == content \in Files /\ NotStarted

\* the while loop is at token s
At(s) == pc = "scan" /\ i <= Len(tokens) /\ tokens[i] = T(s)

ReadTokens == pc = "read" /\ Commit(ReadStep(P))
Header == At(".HEADER") /\ Commit(HeaderStep(P))
BoardOutline ==
    /\ (At(".BOARD_OUTLINE") \/ At(".PANEL_OUTLINE"))
    /\ Commit(BoardOutlineStep(P))
OtherOutline == At(".OTHER_OUTLINE") /\ Commit(OtherOutlineStep(P))
RouteOutline == At(".ROUTE_OUTLINE") /\ Commit(RouteOutlineStep(P))
PlaceOutline == At(".PLACE_OUTLINE") /\ Commit(PlaceOutlineStep(P))
RouteKeepout == At(".ROUTE_KEEPOUT") /\ Commit(RouteKeepoutStep(P))
ViaKeepout == At(".VIA_KEEPOUT") /\ Commit(ViaKeepoutStep(P))
PlaceKeepout == At(".PLACE_KEEPOUT") /\ Commit(PlaceKeepoutStep(P))
DrilledHoles == At(".DRILLED_HOLES") /\ Commit(DrilledHolesStep(P))
Notes == At(".NOTES") /\ Commit(NotesStep(P))
Placement == At(".PLACEMENT") /\ Commit(PlacementStep(P))
SkipToken ==
    /\ pc = "scan" /\ i <= Len(tokens) /\ ~IsSectionStart(tokens[i])
    /\ Commit(SkipStep(P))
Validate == pc = "scan" /\ i > Len(tokens) /\ Commit(ValidateStep(P))

Next ==
    \/ ReadTokens \/ Header \/ BoardOutline \/ OtherOutline \/ RouteOutline
    \/ PlaceOutline \/ RouteKeepout \/ ViaKeepout \/ PlaceKeepout
    \/ DrilledHoles \/ Notes \/ Placement \/ SkipToken \/ Validate

Spec == Init /\ [][Next]_vars

----------------------------------------------------------------------------
(* idf_parser(filename) called again and again on the same file *)

\* a call that would go on with the parser object of the call before, its
\* self.ucnv and self.loop_id_seq as that call left them
ReusedParser(p) ==
    [ParserStart(p.content) EXCEPT !.ucnv = p.ucnv, !.loop_id_seq = p.loop_id_seq]

\* parser = IdfParser(filename) (line 593): every call makes its own object
NewParser(p) == ParserStart(p.content)

Outcome(q) == [pc |-> q.pc, err |-> q.err, result |-> q.result]

\* parser.parse() of the new object, run to its end (line 594)
CallStep(p) == ParseFrom(NewParser(p))

\* idf_parser(filename), the whole call
IdfParserCall ==
    /\ calls < MaxCalls
    /\ \E q \in {CallStep(P)} :
          /\ Assign(q)
          /\ first' = IF calls = 0 THEN Outcome(q) ELSE first
    /\ calls' = calls + 1
    /\ UNCHANGED <<tokVars, geomVars, layerVars>>

NextCalls == IdfParserCall

\* the files called more than once are the whole ones
InitCalls == content \in WholeFiles /\ NotStarted

SpecCalls == InitCalls /\ [][NextCalls]_vars


----------------------------------------------------------------------------
(* _points_to_geometry, one loop iteration at a time *)

\* a vertex as a section writes it: x, y and the angle
Vx(x, y, a) == [x |-> NumVal[x], y |-> NumVal[y], angle |-> NumVal[a]]

\* the loops a section is made of
LoopClosedRect ==
    << Vx("0", "0", "0"), Vx("100", "0", "0"), Vx("100", "50", "0"),
       Vx("0", "50", "0"), Vx("0", "0", "0") >>
LoopOpenRect == SubSeq(LoopClosedRect, 1, 4)
LoopClosedTriangle ==
    << Vx("0", "0", "0"), Vx("50", "0", "0"), Vx("50", "50", "0"),
       Vx("0", "0", "0") >>
LoopTwoPoints == << Vx("0", "0", "0"), Vx("100", "0", "0") >>
LoopCircle == << Vx("0", "50", "0"), Vx("100", "50", "360") >>
LoopCircleClockwise == << Vx("0", "0", "0"), Vx("0", "50", "-360") >>
LoopRectCircle == LoopClosedRect \o << Vx("50", "0", "360") >>
\* a rectangle with one side a half circle, and one with a quarter arc
LoopHalfCircleSide ==
    << Vx("0", "0", "0"), Vx("100", "0", "0"), Vx("100", "50", "180"),
       Vx("0", "50", "0"), Vx("0", "0", "0") >>
LoopQuarterArc ==
    << Vx("0", "0", "0"), Vx("50", "0", "0"), Vx("100", "50", "-90"),
       Vx("0", "50", "0"), Vx("0", "0", "0") >>
\* an arc vertex on the point before it
LoopArcOfNoLength ==
    << Vx("0", "0", "0"), Vx("100", "0", "0"), Vx("100", "0", "90"),
       Vx("0", "50", "0"), Vx("0", "0", "0") >>

LoopShapes ==
    { LoopClosedRect, LoopOpenRect, LoopClosedTriangle, LoopTwoPoints,
      LoopCircle, LoopCircleClockwise, LoopRectCircle, LoopHalfCircleSide,
      LoopQuarterArc, LoopArcOfNoLength }

\* the loop indices of n loops: 0 .. n-1 in any order
Orders(n) ==
    {f \in [1..n -> 0..(n - 1)] : \A a, b \in 1..n : a # b => f[a] # f[b]}

Tagged(loop, n) ==
    [k \in 1..Len(loop) |->
        [loop_n |-> n, x |-> loop[k].x, y |-> loop[k].y, angle |-> loop[k].angle]]

\* the vertices of several loops taken in turn, one of each
RECURSIVE RoundRobin(_)
RoundRobin(ss) ==
    LET live == SelectSeq(ss, LAMBDA q : q # << >>)
    IN  IF live = << >> THEN << >>
        ELSE [k \in 1..Len(live) |-> Head(live[k])]
             \o RoundRobin([k \in 1..Len(live) |-> Tail(live[k])])

\* LoopPoint(id=self.loop_id_seq, ...) in reading order (lines 167-175)
WithIds(pts) ==
    [k \in 1..Len(pts) |->
        [id |-> k - 1, loop_n |-> pts[k].loop_n, x |-> pts[k].x, y |-> pts[k].y,
         angle |-> pts[k].angle]]

\* the arguments of _points_to_geometry: up to MaxLoops loops, their indices
\* in any order, written one after the other or with their vertices mixed
GeomInputs ==
    UNION { { WithIds(IF mixed
                      THEN RoundRobin([j \in 1..Len(loops) |-> Tagged(loops[j], order[j])])
                      ELSE Flatten([j \in 1..Len(loops) |-> Tagged(loops[j], order[j])]))
              : order \in Orders(Len(loops)), mixed \in BOOLEAN }
            : loops \in SeqsUpTo(LoopShapes, MaxLoops) }

GeomInit ==
    /\ g_loop_points \in GeomInputs
    /\ g_cnv \in {UcnvMM, UcnvThou}
    /\ g_keys = << >> /\ g_points = << >> /\ g_k = 1 /\ g_acc = NoAcc
    /\ g_pc = "call" /\ g_shape_loop = << >>
    /\ ParseIdle /\ TokIdle /\ CallIdle /\ LayersIdle

\* the loop index of the shapes a step has added to geometries
Credited(geometries) ==
    g_shape_loop
    \o [k \in 1..(Len(geometries) - Len(g_acc.geometries)) |-> Head(g_keys)]

\* lines 235-245: an empty list is returned at once, else the points are
\* grouped by loop index
GeomGroup ==
    /\ g_pc = "call"
    /\ IF g_loop_points = << >>
       THEN g_pc' = "returned" /\ g_keys' = g_keys
       ELSE g_pc' = "loops" /\ g_keys' = LoopKeys(g_loop_points, << >>)
    /\ UNCHANGED <<g_loop_points, g_cnv, g_points, g_k, g_acc, g_shape_loop>>
    /\ UNCHANGED <<tokVars, parseVars, callVars, layerVars>>

\* lines 246-252: the next loop is sorted and its walk begins
GeomLoopBegin ==
    /\ g_pc = "loops" /\ g_keys # << >>
    /\ LET sorted == SortById(LoopOf(g_loop_points, Head(g_keys)), << >>)
       IN  /\ g_points' = sorted
           /\ g_acc' = GeomLoopStart(g_acc.geometries, sorted, g_cnv)
    /\ g_k' = 1
    /\ g_pc' = "walk"
    /\ UNCHANGED <<g_loop_points, g_cnv, g_keys, g_shape_loop>>
    /\ UNCHANGED <<tokVars, parseVars, callVars, layerVars>>

\* lines 254-309: one vertex of the loop
GeomPoint ==
    /\ g_pc = "walk" /\ g_k <= Len(g_points)
    /\ LET g == GeomVertex(g_acc, g_points[g_k], g_cnv)
       IN  g_acc' = g /\ g_shape_loop' = Credited(g.geometries)
    /\ g_k' = g_k + 1
    /\ UNCHANGED <<g_loop_points, g_cnv, g_keys, g_points, g_pc>>
    /\ UNCHANGED <<tokVars, parseVars, callVars, layerVars>>

\* lines 311-321: the loop's shape is made of its elements
GeomLoopFinish ==
    /\ g_pc = "walk" /\ g_k > Len(g_points)
    /\ LET geometries == GeomLoopEnd(g_acc)
       IN  /\ g_acc' = [g_acc EXCEPT !.geometries = geometries]
           /\ g_shape_loop' = Credited(geometries)
    /\ g_keys' = Tail(g_keys)
    /\ g_pc' = "loops"
    /\ UNCHANGED <<g_loop_points, g_cnv, g_points, g_k>>
    /\ UNCHANGED <<tokVars, parseVars, callVars, layerVars>>

\* line 323: return geometries
GeomReturn ==
    /\ g_pc = "loops" /\ g_keys = << >>
    /\ g_pc' = "returned"
    /\ UNCHANGED <<g_loop_points, g_cnv, g_keys, g_points, g_k, g_acc, g_shape_loop>>
    /\ UNCHANGED <<tokVars, parseVars, callVars, layerVars>>

GeomNext == GeomGroup \/ GeomLoopBegin \/ GeomPoint \/ GeomLoopFinish \/ GeomReturn

SpecGeom == GeomInit /\ [][GeomNext]_vars

----------------------------------------------------------------------------
(* _points_to_geometry on loops with arcs *)

\* the places and the bulge angles of the vertices after a loop's first
ArcPlaces == {<<"0", "0">>, <<"100", "0">>, <<"0", "50">>, <<"50", "50">>}
ArcAngles == {"0", "90", "-90", "180", "270", "-270", "720"}
ArcVertices == {Vx(xy[1], xy[2], a) : xy \in ArcPlaces, a \in ArcAngles}

\* one loop: a straight first vertex at the origin, then up to
\* MaxArcVertices vertices, straight or bulged
ArcLoops ==
    {<<Vx("0", "0", "0")>> \o vs :
        vs \in SeqsUpTo(ArcVertices, MaxArcVertices) \ {<< >>}}

ArcInit ==
    /\ g_loop_points \in {WithIds(Tagged(loop, 0)) : loop \in ArcLoops}
    /\ g_cnv \in {UcnvMM, UcnvThou}
    /\ g_keys = << >> /\ g_points = << >> /\ g_k = 1 /\ g_acc = NoAcc
    /\ g_pc = "call" /\ g_shape_loop = << >>
    /\ ParseIdle /\ TokIdle /\ CallIdle /\ LayersIdle

SpecArcs == ArcInit /\ [][GeomNext]_vars

----------------------------------------------------------------------------
(* emn_importer: the layer set of a route keepout, on the code-string path
   and on the object path *)

\* a layer string, one character after the other
Chars(word) ==
    CASE word = "" -> << >>
      [] word = "TOP" -> <<"T", "O", "P">>
      [] word = "top" -> <<"t", "o", "p">>
      [] word = "Top" -> <<"T", "o", "p">>
      [] word = "COMPONENT" -> <<"C", "O", "M", "P", "O", "N", "E", "N", "T">>
      [] word = "component" -> <<"c", "o", "m", "p", "o", "n", "e", "n", "t">>
      [] word = "BOTTOM" -> <<"B", "O", "T", "T", "O", "M">>
      [] word = "bottom" -> <<"b", "o", "t", "t", "o", "m">>
      [] word = "SOLDER" -> <<"S", "O", "L", "D", "E", "R">>
      [] word = "Solder" -> <<"S", "o", "l", "d", "e", "r">>
      [] word = "ALL" -> <<"A", "L", "L">>
      [] word = "all" -> <<"a", "l", "l">>
      [] word = "BOTH" -> <<"B", "O", "T", "H">>
      [] word = "Both" -> <<"B", "o", "t", "h">>
      [] word = "INNER" -> <<"I", "N", "N", "E", "R">>
      [] word = "TOPS" -> <<"T", "O", "P", "S">>

\* str.upper(), character by character
UpperChar(c) ==
    CASE c = "a" -> "A" [] c = "b" -> "B" [] c = "c" -> "C" [] c = "d" -> "D"
      [] c = "e" -> "E" [] c = "h" -> "H" [] c = "l" -> "L" [] c = "m" -> "M"
      [] c = "n" -> "N" [] c = "o" -> "O" [] c = "p" -> "P" [] c = "r" -> "R"
      [] c = "t" -> "T" [] OTHER -> c
Upper(str) == [k \in 1..Len(str) |-> UpperChar(str[k])]

\* the layer sets: LayerSet(n) and LayerSet.all()
LayerSet(n) == [all |-> FALSE, index |-> n]
LayerSetAll == [all |-> TRUE, index |-> 0]

\* determine_layer_set (lines 197-207): the code it returns
determine_layer_set(layers_str) ==
    IF layers_str = << >> \/ Upper(layers_str) \in {Chars(""), Chars("ALL"), Chars("BOTH")}
    THEN "LayerSet.all()"
    ELSE IF Upper(layers_str) \in {Chars("TOP"), Chars("COMPONENT")}
    THEN "LayerSet(0)"
    ELSE IF Upper(layers_str) \in {Chars("BOTTOM"), Chars("SOLDER")}
    THEN "LayerSet(-1)"
    ELSE "LayerSet.all()"

\* an object path that knows TOP and BOTTOM only
FeatureLayerSetNoAliases(layers) ==
    IF Upper(layers) = Chars("TOP") THEN LayerSet(0)
    ELSE IF Upper(layers) = Chars("BOTTOM") THEN LayerSet(-1)
    ELSE LayerSetAll

\* convert_emn_to_jitx_features, lines 478-483: the layer_set of a route
\* keepout
FeatureLayerSet(layers) ==
    IF Upper(layers) \in {Chars("TOP"), Chars("COMPONENT")} THEN LayerSet(0)
    ELSE IF Upper(layers) \in {Chars("BOTTOM"), Chars("SOLDER")} THEN LayerSet(-1)
    ELSE LayerSetAll

\* the layer strings of the route keepouts handed to the importer
LayerStrings ==
    { Chars(""), Chars("TOP"), Chars("top"), Chars("Top"), Chars("COMPONENT"),
      Chars("component"), Chars("BOTTOM"), Chars("bottom"), Chars("SOLDER"),
      Chars("Solder"), Chars("ALL"), Chars("all"), Chars("BOTH"), Chars("Both"),
      Chars("INNER"), Chars("TOPS") }

LayersInit ==
    /\ rk_layers \in SeqsUpTo(LayerStrings, MaxKeepouts)
    /\ layer_sets = << >> /\ feature_layers = << >>
    /\ ParseIdle /\ TokIdle /\ CallIdle /\ GeomIdle

\* convert_idf_to_layer_code, one iteration of the loop over
\* idf.route_keepouts (lines 229-235)
CodeKeepout ==
    /\ Len(layer_sets) < Len(rk_layers)
    /\ layer_sets' = Append(layer_sets,
                            determine_layer_set(rk_layers[Len(layer_sets) + 1]))
    /\ UNCHANGED <<rk_layers, feature_layers>>
    /\ UNCHANGED <<tokVars, parseVars, callVars, geomVars>>

\* convert_emn_to_jitx_features, one iteration of the loop over
\* idf_file.route_keepouts (lines 476-490)
FeatureKeepout ==
    /\ Len(feature_layers) < Len(rk_layers)
    /\ feature_layers' = Append(feature_layers,
                                FeatureLayerSet(rk_layers[Len(feature_layers) + 1]))
    /\ UNCHANGED <<rk_layers, layer_sets>>
    /\ UNCHANGED <<tokVars, parseVars, callVars, geomVars>>

LayersNext == CodeKeepout \/ FeatureKeepout

SpecLayers == LayersInit /\ [][LayersNext]_vars

----------------------------------------------------------------------------
(* Claims about the section scanner and the assembler *)

Final == pc \in {"returned", "raised"}

\* the while loop has run to the end of the token stream
ScanComplete == Final /\ i > Len(tokens)

RECURSIVE CountIn(_, _)
CountIn(seq, S) ==
    IF seq = << >> THEN 0
    ELSE (IF Head(seq) \in S THEN 1 ELSE 0) + CountIn(Tail(seq), S)

\* the header sections and the board or panel outline sections the scanner
\* has met in the token stream
NHeaderSections == CountIn(dispatched, {T(".HEADER")})
NBoardSections == CountIn(dispatched, {T(".BOARD_OUTLINE"), T(".PANEL_OUTLINE")})

\* C1: parse() returns a File only when the token stream held exactly one
\* header section and exactly one board or panel outline section; when the
\* scan ends with another number of headers, or of board outlines, it raises
\* the IdfException that names the header, or the board outline, with the
\* number met.
C1_ExactlyOneHeaderAndOutline ==
    /\ pc = "returned" => NHeaderSections = 1 /\ NBoardSections = 1
    /\ ScanComplete /\ NHeaderSections # 1
          => pc = "raised" /\ err = Expected("header", NHeaderSections)
    /\ ScanComplete /\ NHeaderSections = 1 /\ NBoardSections # 1
          => pc = "raised" /\ err = Expected("board outline", NBoardSections)

\* the end marker of each section-start token (board and panel outlines
\* share one)
EndMarkerOf(tok) ==
    CASE tok = T(".HEADER") -> ".END_HEADER"
      [] tok = T(".BOARD_OUTLINE") -> ".END_BOARD_OUTLINE"
      [] tok = T(".PANEL_OUTLINE") -> ".END_BOARD_OUTLINE"
      [] tok = T(".OTHER_OUTLINE") -> ".END_OTHER_OUTLINE"
      [] tok = T(".ROUTE_OUTLINE") -> ".END_ROUTE_OUTLINE"
      [] tok = T(".PLACE_OUTLINE") -> ".END_PLACE_OUTLINE"
      [] tok = T(".ROUTE_KEEPOUT") -> ".END_ROUTE_KEEPOUT"
      [] tok = T(".VIA_KEEPOUT") -> ".END_VIA_KEEPOUT"
      [] tok = T(".PLACE_KEEPOUT") -> ".END_PLACE_KEEPOUT"
      [] tok = T(".DRILLED_HOLES") -> ".END_DRILLED_HOLES"
      [] tok = T(".NOTES") -> ".END_NOTES"
      [] tok = T(".PLACEMENT") -> ".END_PLACEMENT"

\* the scanner is at a section-start token whose end marker occurs nowhere
\* in the rest of the stream
AtUnterminatedSection ==
    /\ pc = "scan" /\ i <= Len(tokens) /\ IsSectionStart(tokens[i])
    /\ ~Contains(SubSeq(tokens, i + 1, Len(tokens)), T(EndMarkerOf(tokens[i])))

RECURSIVE FirstLine(_, _, _)
FirstLine(lines, line, k) ==
    IF k > Len(lines) THEN 0
    ELSE IF lines[k] = line THEN k ELSE FirstLine(lines, line, k + 1)

RECURSIVE WithoutUnknownBlocks(_)
WithoutUnknownBlocks(lines) ==
    IF lines = << >> THEN << >>
    ELSE LET end == FirstLine(lines, W(".END_CUSTOM_SECTION"), 2)
         IN  IF Head(lines) = W(".CUSTOM_SECTION") /\ end # 0
             THEN WithoutUnknownBlocks(SubSeq(lines, end + 1, Len(lines)))
             ELSE <<Head(lines)>> \o WithoutUnknownBlocks(Tail(lines))

\* C3: a file that parses without its unknown block parses with it, to the
\* same File (the same board outline and all the rest): nothing of the block
\* is decoded as a section.
C3_UnknownBlockIgnored ==
    Final /\ WithoutUnknownBlocks(content) # content
          /\ IdfParserRun(WithoutUnknownBlocks(content)).pc = "returned"
      => /\ pc = "returned"
         /\ result = IdfParserRun(WithoutUnknownBlocks(content)).result

\* C4: the placement record  "PKG" "" "R1" 50 50 0 0 "TOP" "PLACED"  of a
\* file that parses decodes to a part whose partnumber is the empty string,
\* with every other field in its place.
C4_EmptyLiteralKept ==
    pc = "returned" /\ Contains(content, EmptyPartNumberRecord)
      => \E k \in 1..Len(result.placement) :
            LET part == result.placement[k]
            IN  /\ part.package = T("PKG") /\ part.partnumber = << >>
                /\ part.refdes = T("R1")
                /\ part.x = Mul(NumVal["50"], ucnv) /\ part.y = Mul(NumVal["50"], ucnv)
                /\ part.offset = 0 /\ part.angle = 0
                /\ part.side = T("TOP") /\ part.status = T("PLACED")

\* C7: route_outlines holds only records decoded from .ROUTE_OUTLINE
\* sections: no .PLACE_OUTLINE record is among them.
C7_PlaceOutlinesApart ==
    pc = "returned"
      => \A k \in 1..Len(result.route_outlines) :
            result.route_outlines[k].ident = T(".ROUTE_OUTLINE")

\* the rectangle of Rect as _points_to_geometry gives it
RectShape(n, cnv) ==
    PointsToGeometry(ParseLoopPoints(RemoveEmptyTokens(TokenizeLines(Rect(n))), 0).points,
                     cnv)[1]

\* C8: a file made of a header and a .PANEL_OUTLINE section ended by
\* .END_PANEL_OUTLINE parses, and the section's first loop is the File's
\* board outline.
C8_PanelOutlineEndMarker ==
    Final /\ content = HeaderLines("MM") \o PanelEndPanel
      => pc = "returned" /\ result.board_outline = RectShape("0", UcnvMM)

\* the files made of a header and the one board section
HeaderAnd(section) == {HeaderLines(u) \o section : u \in {"MM", "THOU"}}

\* C9: the full-circle vertex V = (100,50) after P = (0,50) gives a Circle
\* whose radius is half of |V - P| = 100 and whose centre is the midpoint
\* (50,50) of P and V.
C9_CircleRadiusAndCentre ==
    pc = "returned" /\ content \in HeaderAnd(BoardCircle)
      => /\ result.board_outline.kind = "Circle"
         /\ result.board_outline.radius = Mul(NumVal["50"], ucnv)
         /\ "center" \in DOMAIN result.board_outline
         /\ result.board_outline.center
               = <<Mul(NumVal["50"], ucnv), Mul(NumVal["50"], ucnv)>>

\* C10: the loop of the rectangle's five vertices and one full-circle vertex
\* gives the section exactly one shape, the Circle: it is the board outline
\* and there is no cutout.
C10_FullCircleLoopOneShape ==
    pc = "returned" /\ content \in HeaderAnd(BoardRectCircle)
      => /\ result.board_outline.kind = "Circle"
         /\ result.board_cutouts = << >>

\* the first token of the stream that is one of S, from position k on
RECURSIVE FirstIndexIn(_, _, _)
FirstIndexIn(toks, S, k) ==
    IF k > Len(toks) THEN 0
    ELSE IF toks[k] \in S THEN k ELSE FirstIndexIn(toks, S, k + 1)

\* the vertices written in the file's first board or panel section, as
\* tokens: what stands between its owner and thickness and its end marker
BoardVertexTokens ==
    LET b == FirstIndexIn(tokens, {T(".BOARD_OUTLINE"), T(".PANEL_OUTLINE")}, 1)
        rest == SubSeq(tokens, b + 1, Len(tokens))
        e == IndexFrom(rest, ".END_BOARD_OUTLINE", 1)
    IN  SubSeq(rest, 3, e - 1)

BoardLoopPoints == ParseLoopPoints(BoardVertexTokens, 0).points

\* the shapes the File keeps of its board section
BoardShapes == <<result.board_outline>> \o result.board_cutouts

\* C12: for the single board or panel section of a returned File, the board
\* outline is the shape of the section's first loop and the cutouts are the
\* shapes of the later loops in order: as many cutouts as loops but one.
\* (The unit factor is the one in force when the section was decoded.)
C12_OutlineAndCutouts ==
    pc = "returned" /\ NBoardSections = 1
      => LET keys == LoopKeys(BoardLoopPoints, << >>)
         IN  /\ Len(result.board_cutouts) = Len(keys) - 1
             /\ \E cnv \in {UcnvMM, UcnvThou} : \A j \in 1..Len(keys) :
                   LET shapes == GeomLoop(<< >>, LoopOf(BoardLoopPoints, keys[j]), cnv)
                   IN  Len(shapes) = 1 /\ BoardShapes[j] = shapes[1]

\* C16: the two five-field hole records of the IDF 2.0 file decode to two
\* holes, each with its dia, x, y, plating and assoc, and with the empty
\* string as type and as owner.
C16_V2HolesFiveFields ==
    Final /\ content = CoreV2 \o HolesV2Lines
      => holes = << [dia |-> NumVal["2.0"], x |-> NumVal["50"], y |-> NumVal["50"],
                     plating |-> T("PTH"), assoc |-> T("VIA"),
                     type |-> << >>, owner |-> << >>],
                    [dia |-> NumVal["3.0"], x |-> NumVal["100"], y |-> NumVal["50"],
                     plating |-> T("NPTH"), assoc |-> T("MTG"),
                     type |-> << >>, owner |-> << >>] >>

\* C17: the IDF 2.0 file, whose .BOARD_OUTLINE section has a thickness and
\* no owner, parses, and its board outline is the 100 x 50 rectangle.
C17_V2BoardOutlineNoOwner ==
    Final /\ content = CoreV2
      => pc = "returned" /\ result.board_outline = RectShape("0", UcnvMM)

\* C18: every exception that leaves parse() is the parser's IdfException.
C18_DecodeErrorsStructured ==
    pc = "raised" => err.type = "IdfException"

\* C19: the file whose placement record has eight tokens, its part number
\* omitted, does not parse: the record is neither dropped nor decoded.
C19_ShortPlacementRecordFails ==
    Final /\ content = ValidCore \o PlacementShort
      => pc = "raised" /\ err.type = "IdfException"

\* f(U): 0.0254 for THOU, 1.0 for MM and for any other tag; and a raw value
\* times a factor, once
UnitFactor(units) == IF units = T("THOU") THEN UcnvThou ELSE UcnvMM
Scaled(x, f) == (x * f) \div UcnvDen

\* the tokens of the section the scanner has just passed: between its start
\* token and its end marker
SectionTokens == SubSeq(tokens, i + 1, i' - 2)

\* the records a step has appended to a collection
Appended(old, new) == SubSeq(new, Len(old) + 1, Len(new))

HolesScaledOnce(st, f) ==
    /\ Len(holes') = Len(holes) + Len(st) \div 7
    /\ \A k \in 1..(Len(st) \div 7) :
          LET rec == holes'[Len(holes) + k]
              b == 7 * (k - 1)
          IN  /\ rec.dia = Scaled(FloatOf(st[b + 1]), f)
              /\ rec.x = Scaled(FloatOf(st[b + 2]), f)
              /\ rec.y = Scaled(FloatOf(st[b + 3]), f)

NotesScaledOnce(st, f) ==
    /\ Len(notes') = Len(notes) + Len(st) \div 5
    /\ \A k \in 1..(Len(st) \div 5) :
          LET rec == notes'[Len(notes) + k]
              b == 5 * (k - 1)
          IN  /\ rec.x = Scaled(FloatOf(st[b + 1]), f)
              /\ rec.y = Scaled(FloatOf(st[b + 2]), f)
              /\ rec.height = Scaled(FloatOf(st[b + 3]), f)
              /\ rec.length = Scaled(FloatOf(st[b + 4]), f)

PlacementScaledOnce(st, f) ==
    /\ Len(placement') = Len(placement) + Len(st) \div 9
    /\ \A k \in 1..(Len(st) \div 9) :
          LET rec == placement'[Len(placement) + k]
              b == 9 * (k - 1)
          IN  /\ rec.x = Scaled(FloatOf(st[b + 4]), f)
              /\ rec.y = Scaled(FloatOf(st[b + 5]), f)
              /\ rec.offset = Scaled(FloatOf(st[b + 6]), f)

\* the fields that stand before the vertices of an outline or keepout section
FieldsBeforeVertices(tok) ==
    CASE tok \in {T(".BOARD_OUTLINE"), T(".PANEL_OUTLINE")} -> 2
      [] tok = T(".OTHER_OUTLINE") -> 4
      [] tok = T(".ROUTE_OUTLINE") -> 2
      [] tok = T(".PLACE_OUTLINE") -> 3
      [] tok = T(".ROUTE_KEEPOUT") -> 2
      [] tok = T(".VIA_KEEPOUT") -> 1
      [] tok = T(".PLACE_KEEPOUT") -> 3

PointsOf(shape) == SelectSeq(shape.elements, LAMBDA e : e.t = "pt")

\* the outline points of the records appended are the section's raw
\* vertices, each coordinate times f once
OutlinePointsScaledOnce(st, f) ==
    LET raw == ParseLoopPoints(SubSeq(st, FieldsBeforeVertices(tokens[i]) + 1, Len(st)),
                               0).points
        scaled == [k \in 1..Len(raw) |->
                      [raw[k] EXCEPT !.x = Scaled(@, f), !.y = Scaled(@, f)]]
        expected == PointsToGeometry(scaled, UcnvMM)
        new == Appended(board_outlines, board_outlines')
               \o Appended(other_outlines, other_outlines')
               \o Appended(route_outlines, route_outlines')
               \o Appended(route_keepouts, route_keepouts')
               \o Appended(via_keepouts, via_keepouts')
               \o Appended(place_keepouts, place_keepouts')
    IN  /\ Len(new) = IF expected = << >> THEN 0 ELSE 1
        /\ \A r \in 1..Len(new) :
              LET shapes == <<new[r].outline>> \o new[r].cutouts
              IN  /\ Len(shapes) = Len(expected)
                  /\ \A j \in 1..Len(shapes) :
                        PointsOf(shapes[j]) = PointsOf(expected[j])

\* a header section with its seven fields, the version and the revision
\* numeric
WellFormedHeaderAhead ==
    LET e == IndexFrom(SubSeq(tokens, i + 1, Len(tokens)), ".END_HEADER", 1)
    IN  /\ e >= 8
        /\ IsFloat(tokens[i + 2]) /\ IsInt(tokens[i + 5])

\* C15: a section decoded after a header declaring unit U holds each raw
\* coordinate and length multiplied once by f(U): the outline points, the
\* holes' dia, x, y, the notes' x, y, height, length and the parts' x, y,
\* offset; and a header with an unknown unit tag does not stop the parse.
C15_UnitFactorOnce ==
    [][/\ (/\ pc = "scan" /\ i <= Len(tokens) /\ pc' = "scan"
           /\ IsSectionStart(tokens[i]) /\ tokens[i] # T(".HEADER")
           /\ headers # << >>)
          => LET f == UnitFactor(headers[Len(headers)].units)
                 st == SectionTokens
             IN  CASE tokens[i] = T(".DRILLED_HOLES") -> HolesScaledOnce(st, f)
                   [] tokens[i] = T(".NOTES") -> NotesScaledOnce(st, f)
                   [] tokens[i] = T(".PLACEMENT") -> PlacementScaledOnce(st, f)
                   [] OTHER -> OutlinePointsScaledOnce(st, f)
       /\ (pc = "scan" /\ i <= Len(tokens) /\ tokens[i] = T(".HEADER")
              /\ WellFormedHeaderAhead)
          => pc' = "scan" /\ headers'[Len(headers')].units = tokens[i + 7]
       /\ (pc = "scan" /\ pc' = "returned")
          => /\ result'.holes = holes /\ result'.notes = notes
             /\ result'.placement = placement
             /\ result'.board_outline = board_outlines[1].outline]_vars

\* a File in thousandths of an inch has been returned with a hole and a
\* board outline in it
C15_Witness ==
    /\ pc = "returned" /\ result.header.units = T("THOU")
    /\ dispatched[1] = T(".HEADER")
    /\ result.holes # << >>
    /\ result.holes[1].x = Scaled(NumVal["50"], UcnvThou)
    /\ result.board_outline.kind = "Polygon"

CardinalityError ==
    err.type = "IdfException" /\ err.name \in {"header", "board outline"}

\* C23: the cardinality errors are raised only when the scan has passed the
\* last token: a step taken while tokens remain never raises one; what it
\* raises is the missing end marker or the malformed record, with or without
\* a header or board outline decoded so far.
C23_CardinalityCheckedLast ==
    [][/\ (pc' = "raised" /\ CardinalityError')
          => pc = "scan" /\ i > Len(tokens)
       /\ (pc = "scan" /\ i <= Len(tokens) /\ pc' = "raised")
          => \/ err' = NotFound(EndMarkerOf(tokens[i]))
             \/ err' \in {ValueError, IndexError}]_vars

\* a file without a header has failed at a later section, on its missing
\* end marker or on a malformed number, not on the header count
C23_Witness ==
    /\ pc = "raised" /\ NHeaderSections = 0 /\ headers = << >>
    /\ Len(dispatched) >= 2 /\ i <= Len(tokens)
    /\ err \in {NotFound(EndMarkerOf(tokens[i])), ValueError}

\* the factor in force: 1.0 until a header is decoded, then that of the last
\* header decoded
ActiveFactor ==
    IF headers = << >> THEN UcnvMM ELSE UnitFactor(headers[Len(headers)].units)

\* C24: a new parser's factor is 1.0; a section is decoded with the factor
\* in force when the scanner reaches it (1.0 before any header, else that of
\* the last header decoded); and decoding a header leaves every value decoded
\* before it as it was.
C24_FactorAtDecodeTime ==
    [][/\ pc = "read" => ucnv = UcnvMM
       /\ pc = "scan" => ucnv = ActiveFactor
       /\ (/\ pc = "scan" /\ i <= Len(tokens) /\ pc' = "scan"
           /\ IsSectionStart(tokens[i]) /\ tokens[i] # T(".HEADER"))
          => LET st == SectionTokens
             IN  CASE tokens[i] = T(".DRILLED_HOLES") -> HolesScaledOnce(st, ActiveFactor)
                   [] tokens[i] = T(".NOTES") -> NotesScaledOnce(st, ActiveFactor)
                   [] tokens[i] = T(".PLACEMENT") -> PlacementScaledOnce(st, ActiveFactor)
                   [] OTHER -> OutlinePointsScaledOnce(st, ActiveFactor)
       /\ (pc = "scan" /\ i <= Len(tokens) /\ tokens[i] = T(".HEADER"))
          => UNCHANGED <<board_outlines, other_outlines, route_outlines,
                         route_keepouts, via_keepouts, place_keepouts, holes,
                         notes, placement>>]_vars

\* a File in thousandths of an inch has been returned whose hole, written
\* before the header, kept its raw values, and whose board outline, written
\* after it, is scaled
C24_Witness ==
    /\ pc = "returned" /\ result.header.units = T("THOU")
    /\ dispatched = <<T(".DRILLED_HOLES"), T(".HEADER"), T(".BOARD_OUTLINE")>>
    /\ result.holes # << >>
    /\ result.holes[1].x = NumVal["50"] /\ result.holes[1].dia = NumVal["5"]
    /\ result.board_outline = RectShape("0", UcnvThou)

\* the place of the thickness among the section's tokens
ThicknessField(tok) ==
    CASE tok = T(".OTHER_OUTLINE") -> 3
      [] tok = T(".PLACE_OUTLINE") -> 3
      [] tok = T(".PLACE_KEEPOUT") -> 3

\* C25: the record an other-outline, place-outline or place-keepout section
\* appends holds the section's raw thickness times the factor in force.
C25_ThicknessNormalized ==
    [][(/\ pc = "scan" /\ i <= Len(tokens) /\ pc' = "scan"
        /\ tokens[i] \in {T(".OTHER_OUTLINE"), T(".PLACE_OUTLINE"), T(".PLACE_KEEPOUT")})
       => LET new == Appended(other_outlines, other_outlines')
                     \o Appended(route_outlines, route_outlines')
                     \o Appended(place_keepouts, place_keepouts')
          IN  \A r \in 1..Len(new) :
                 new[r].thickness
                    = Scaled(FloatOf(SectionTokens[ThicknessField(tokens[i])]),
                             ActiveFactor)]_vars

\* C29: the while loop of parse() makes at most as many iterations as there
\* are tokens: the scan index never decreases and never exceeds the number
\* of tokens by more than one; an iteration raises or leaves the index larger
\* than it found it; a recognized section leaves it just past the section's
\* end marker; and the step after the last token ends the run.
C29_ScanTerminates ==
    [][/\ i' >= i
       /\ pc' = "scan" => i' <= Len(tokens') + 1
       /\ (pc = "scan" /\ i <= Len(tokens))
          => \/ pc' = "raised"
             \/ pc' = "scan" /\ i' > i
       /\ (pc = "scan" /\ i <= Len(tokens) /\ IsSectionStart(tokens[i])
              /\ pc' = "scan")
          => /\ i' - 1 > i /\ i' - 1 <= Len(tokens)
             /\ tokens[i' - 1] = T(EndMarkerOf(tokens[i]))
       /\ (pc = "scan" /\ i > Len(tokens)) => Final']_vars

\* a run has ended after stepping over two sections and over tokens that
\* start no section
C29_Witness ==
    /\ Final /\ i > Len(tokens)
    /\ Len(dispatched) = 2
    /\ \E k \in 1..Len(tokens) : tokens[k] = T(".CUSTOM_SECTION")

\* C30: the number the board-outline check counts and reports is the number
\* of .BOARD_OUTLINE and .PANEL_OUTLINE sections of the token stream: with
\* one header and one such section the scan ends in a File, and a failed
\* check names the number of sections.
C30_BoardCountIsSectionCount ==
    /\ ScanComplete /\ NHeaderSections = 1 /\ Len(headers) = 1
          /\ NBoardSections = 1
       => pc = "returned"
    /\ pc = "raised" /\ err.type = "IdfException" /\ err.name = "board outline"
       => err.count = NBoardSections

----------------------------------------------------------------------------
(* Claims about the geometry reconstructor *)

\* the loop indices of the call's points, and loop n in the order of its ids
DistinctLoops == {g_loop_points[k].loop_n : k \in 1..Len(g_loop_points)}
SortedLoop(n) == SortById(LoopOf(g_loop_points, n), << >>)

\* loop n has only straight vertices; it has three or more of them
Straight(n) == \A k \in 1..Len(SortedLoop(n)) : SortedLoop(n)[k].angle = 0
PlainLoop(n) == Straight(n) /\ Len(SortedLoop(n)) >= 3

\* C11: when every loop of the section is a loop of three or more straight
\* vertices, the list returned has one shape for each distinct loop index,
\* in ascending order of the loop indices, however the file orders the loops.
C11_OneShapePerLoopAscending ==
    g_pc = "returned" /\ (\A n \in DistinctLoops : PlainLoop(n))
      => /\ Len(g_acc.geometries) = Cardinality(DistinctLoops)
         /\ {g_shape_loop[j] : j \in 1..Len(g_shape_loop)} = DistinctLoops
         /\ \A a, b \in 1..Len(g_shape_loop) :
               a < b => g_shape_loop[a] < g_shape_loop[b]

\* C13: every Polygon and ArcPolygon of the list returned is closed: the
\* first and the last of its point elements are the same point.
C13_PolygonsClosed ==
    g_pc = "returned"
      => \A j \in 1..Len(g_acc.geometries) :
            LET shape == g_acc.geometries[j]
                pts == PointsOf(shape)
            IN  shape.kind \in {"Polygon", "ArcPolygon"} /\ pts # << >>
                  => /\ pts[1].x = pts[Len(pts)].x
                     /\ pts[1].y = pts[Len(pts)].y

\* loop n is straight and its last vertex is its first one again
ClosedStraightLoop(n) ==
    LET loop == SortedLoop(n)
    IN  /\ PlainLoop(n)
        /\ loop[1].x = loop[Len(loop)].x /\ loop[1].y = loop[Len(loop)].y

\* the walk of loop n is over
LoopDone(n) == g_pc \in {"loops", "walk", "returned"} /\ ~Contains(g_keys, n)

Walking == g_pc = "walk" /\ g_k <= Len(g_points)
Vertex == g_points[g_k]
VertexX == Scaled(Vertex.x, g_cnv)
VertexY == Scaled(Vertex.y, g_cnv)
ChordLength ==
    Sqrt((VertexX - g_acc.cx) * (VertexX - g_acc.cx)
         + (VertexY - g_acc.cy) * (VertexY - g_acc.cy))
SinHalf == SinDeg(Vertex.angle \div (2 * FP))

\* a vertex with a bulge that is no full circle; a degenerate one has no
\* chord or no sine of the half angle; a general arc is one that is not
\* degenerate
ArcVertex == Vertex.angle # 0 /\ Abs(Vertex.angle) # 360 * FP
DegenerateArc == ArcVertex /\ (ChordLength = 0 \/ SinHalf = 0)
GeneralArc == ArcVertex /\ ~DegenerateArc

\* the element the step has appended, if it appended one
NewElement == g_acc'.elements[Len(g_acc'.elements)]
AppendsOne == Len(g_acc'.elements) = Len(g_acc.elements) + 1

\* equal within one hundredth, the last digit carried
Near(a, b) == Abs(a - b) <= 1

\* C21: a general arc vertex appends one Arc whose sweep is the vertex's
\* bulge angle, sign and all, and whose radius is |d / (2 sin(angle/2))|, d
\* the chord from the current point to the vertex.
C21_ArcSweepAndRadius ==
    [][Walking /\ GeneralArc
         => /\ AppendsOne
            /\ NewElement.t = "arc"
            /\ NewElement.sweep = Vertex.angle
            /\ Near(NewElement.r, Abs((ChordLength * TrigDen) \div (2 * SinHalf)))]_vars

\* a loop with an arc of -90 degrees and one of 270 has been walked
C21_Witness ==
    /\ g_pc = "returned" /\ Len(g_acc.geometries) = 1
    /\ g_acc.geometries[1].kind = "ArcPolygon"
    /\ Len(g_acc.geometries[1].elements) = 3
    /\ g_acc.geometries[1].elements[2].sweep = NumVal["-90"]
    /\ g_acc.geometries[1].elements[3].sweep = NumVal["270"]
    /\ g_acc.geometries[1].elements[2].r > 0

\* the chord's midpoint, its unit direction u (in 1/TrigDen) and the offset
\* m of the centre from the midpoint along n = (-u.y, u.x); the sign s, the
\* product of the two flips
MidX == (g_acc.cx + VertexX) \div 2
MidY == (g_acc.cy + VertexY) \div 2
UnitX == ((VertexX - g_acc.cx) * TrigDen) \div ChordLength
UnitY == ((VertexY - g_acc.cy) * TrigDen) \div ChordLength
NormalX == -UnitY
NormalY == UnitX
MidToCentre ==
    Sqrt(Max(0, NewElement.r * NewElement.r
                - (ChordLength \div 2) * (ChordLength \div 2)))
FlipSign ==
    (IF Abs(Vertex.angle) > 180 * FP THEN -1 ELSE 1)
    * (IF Vertex.angle < 0 THEN -1 ELSE 1)

\* a length along a unit direction
Along(unit, len) == (unit * len) \div TrigDen

\* C26: the centre of a general arc is C = M + n*m*s: the midpoint of the
\* chord moved by m along n = (-u.y, u.x), to the side the sign s tells, s
\* the product of the flip for |angle| > 180 and the flip for angle < 0.
C26_ArcCentre ==
    [][Walking /\ GeneralArc
         => /\ Near(NewElement.x, MidX + Along(NormalX, MidToCentre) * FlipSign)
            /\ Near(NewElement.y, MidY + Along(NormalY, MidToCentre) * FlipSign)]_vars

\* C26 as the specification words it: the centre is C = M - n*m*s.
C26_ArcCentreMinus ==
    [][Walking /\ GeneralArc
         => /\ Near(NewElement.x, MidX - Along(NormalX, MidToCentre) * FlipSign)
            /\ Near(NewElement.y, MidY - Along(NormalY, MidToCentre) * FlipSign)]_vars

\* an arc of -270 degrees on the chord from (0,0) to (100,0), both flips at
\* work, has been given its centre on the left of the chord
C26_Witness ==
    /\ g_pc = "returned" /\ g_cnv = UcnvMM /\ Len(g_points) = 2
    /\ g_points[2].x = NumVal["100"] /\ g_points[2].y = 0
    /\ g_points[2].angle = NumVal["-270"]
    /\ Len(g_acc.geometries) = 1
    /\ g_acc.geometries[1].kind = "ArcPolygon"
    /\ g_acc.geometries[1].elements[2].sweep = NumVal["-270"]
    /\ g_acc.geometries[1].elements[2].y > 0

\* C27: a degenerate arc vertex changes nothing: no element is appended, no
\* shape made, the current point stays where it was, and the walk goes on to
\* the next vertex of the loop.
C27_DegenerateArcSkipped ==
    [][Walking /\ DegenerateArc
         => /\ g_acc' = g_acc
            /\ g_pc' = "walk" /\ g_k' = g_k + 1
            /\ g_points' = g_points]_vars

\* a loop whose second vertex bulges by 720 degrees has been walked to its
\* end: the vertex after it gave the second element
C27_Witness ==
    /\ g_pc = "returned" /\ Len(g_points) = 3
    /\ g_points[2].angle = NumVal["720"]
    /\ g_points[2].x # 0
    /\ g_points[3].angle = NumVal["90"]
    /\ Len(g_acc.elements) = 2 /\ g_acc.elements[2].t = "arc"

\* no vertex of the loop being walked is a full circle
NoFullCircle ==
    \A k \in 1..Len(g_points) : Abs(g_points[k].angle) # 360 * FP

HasArc(elements) == \E k \in 1..Len(elements) : elements[k].t = "arc"

\* C28: in a loop without a full-circle vertex the elements are appended in
\* the order of the vertices, a point for a straight vertex and an arc for a
\* bulged one; at the loop's end they make an ArcPolygon of all of them, in
\* that order, when one of them is an arc, else a Polygon of the points when
\* there are three or more, else no shape.
C28_ShapeKindByElements ==
    [][/\ (Walking /\ NoFullCircle)
          => /\ g_acc'.geometries = g_acc.geometries
             /\ \/ g_acc'.elements = g_acc.elements /\ DegenerateArc
                \/ /\ AppendsOne
                   /\ SubSeq(g_acc'.elements, 1, Len(g_acc.elements)) = g_acc.elements
                   /\ IF Vertex.angle = 0
                      THEN NewElement = Pt(VertexX, VertexY)
                      ELSE NewElement.t = "arc" /\ NewElement.sweep = Vertex.angle
       /\ (g_pc = "walk" /\ g_k > Len(g_points) /\ NoFullCircle)
          => Appended(g_acc.geometries, g_acc'.geometries)
                = IF HasArc(g_acc.elements) THEN <<ArcPolygon(g_acc.elements)>>
                  ELSE IF Len(g_acc.elements) >= 3 THEN <<Polygon(g_acc.elements)>>
                  ELSE << >>]_vars

\* an ArcPolygon of a point, an arc and a point, in the order of its
\* vertices, has been returned
C28_Witness ==
    /\ g_pc = "returned" /\ Len(g_acc.geometries) = 1
    /\ g_acc.geometries[1].kind = "ArcPolygon"
    /\ Len(g_points) = 3 /\ g_points[2].angle = NumVal["180"] /\ g_points[3].angle = 0
    /\ Len(g_acc.geometries[1].elements) = 3
    /\ g_acc.geometries[1].elements[2].t = "arc"
    /\ g_acc.geometries[1].elements[3] = Pt(Scaled(g_points[3].x, g_cnv),
                                            Scaled(g_points[3].y, g_cnv))

----------------------------------------------------------------------------
(* Claims about the importer *)

\* the layer set a piece of generated code stands for
Denoted(code) ==
    CASE code = "LayerSet(0)" -> LayerSet(0)
      [] code = "LayerSet(-1)" -> LayerSet(-1)
      [] code = "LayerSet.all()" -> LayerSetAll

\* the layer strings that name the top side and the bottom side, in any case
TopNames ==
    {Chars("TOP"), Chars("top"), Chars("Top"), Chars("COMPONENT"), Chars("component")}
BottomNames ==
    {Chars("BOTTOM"), Chars("bottom"), Chars("SOLDER"), Chars("Solder")}

LayerSetOf(layers) ==
    IF layers \in TopNames THEN LayerSet(0)
    ELSE IF layers \in BottomNames THEN LayerSet(-1)
    ELSE LayerSetAll

\* C22: for every route keepout the code generated by the code-string path
\* stands for the layer set the object path gives the KeepOut, and both are
\* layer 0 for TOP or COMPONENT, layer -1 for BOTTOM or SOLDER, in any case
\* of the letters, and all layers for every other string.
C22_LayerSetsAgree ==
    /\ \A k \in 1..Len(layer_sets) : Denoted(layer_sets[k]) = LayerSetOf(rk_layers[k])
    /\ \A k \in 1..Len(feature_layers) : feature_layers[k] = LayerSetOf(rk_layers[k])

\* both paths have done two keepouts, one on COMPONENT and one on solder
C22_Witness ==
    /\ Len(rk_layers) = 2 /\ Len(layer_sets) = 2 /\ Len(feature_layers) = 2
    /\ rk_layers[1] = Chars("COMPONENT") /\ rk_layers[2] = Chars("Solder")
    /\ feature_layers = <<LayerSet(0), LayerSet(-1)>>

----------------------------------------------------------------------------
(* Claims about the tokenizer *)

QuoteFree(line) == \A k \in 1..Len(line) : line[k] # Quote

\* the line with every tab replaced by one space
TabsAsSpaces(line) ==
    [k \in 1..Len(line) |-> IF line[k] = Tab THEN Space ELSE line[k]]

\* C5: on a line without quotes, no token contains a space or a tab, and the
\* tokens are those of the same line with its tabs replaced by spaces.
C5_TabsSeparate ==
    tk_pc = "done" /\ QuoteFree(tk_raw)
      => /\ \A k \in 1..Len(tk_tokens) : \A j \in 1..Len(tk_tokens[k]) :
               tk_tokens[k][j] \notin {Space, Tab}
         /\ tk_tokens = TokenizeLine(Strip(TabsAsSpaces(tk_raw)))

\* the characters between the two quotes of a closed literal
LitText(lit) == SubSeq(tk_line, lit.open + 1, lit.close - 1)

\* the literal's opening quote stands where a token starts: at the start of
\* the line, after a space, or right after the closing quote of another
\* literal
OpensToken(lit) ==
    \/ lit.open = 1
    \/ tk_line[lit.open - 1] = Space
    \/ \E k \in 1..Len(tk_lits) : tk_lits[k].close = lit.open - 1

\* the literal has given exactly one token, equal to the characters between
\* its quotes: the tokens up to its own are those of the line before it, and
\* then that one
OneTokenOfItsText(lit) ==
    /\ lit.token = Len(TokenizeLine(SubSeq(tk_line, 1, lit.open - 1))) + 1
    /\ tk_tokens[lit.token] = LitText(lit)

====
